---- MODULE Spec2Model ----
(***************************************************************************)
(* Standup tracker: the submission pipeline (processStandup), the record   *)
(* store (storageService), the question generator (aiService) and the      *)
(* analytics of dataHandler, as a state machine.                           *)
(*                                                                         *)
(* JavaScript strings are TLA+ strings; Len, SubSeq and \o act on them.    *)
(* A JavaScript value whose type matters (an element of the array the      *)
(* model adapter answers) is a record [t |-> type, v |-> text].            *)
(***************************************************************************)
EXTENDS Integers, Sequences, FiniteSets, TLC

VARIABLES store, clock, reqs, probe

vars == <<store, clock, reqs, probe>>

----------------------------------------------------------------------------
(* Bounds of the model *)

\* number of submissions of one member, one after the other (SeqSpec) or at the
\* same time (ConcSpec)
MaxReq == 2
\* the clock runs from 0 to MaxClock
MaxClock == 2
\* clock ticks in one calendar day
TicksPerDay == 2

----------------------------------------------------------------------------
(* String.prototype helpers *)

Min(a, b) == IF a < b THEN a ELSE b

Max(a, b) == IF a < b THEN b ELSE a

\* s.substring(a, b), 0 <= a <= b
substring(s, a, b) == SubSeq(s, Min(a, Len(s)) + 1, Min(b, Len(s)))

\* s.charAt(i)
charAt(s, i) == SubSeq(s, i + 1, i + 1)

UpperChars == "ABCDEFGHIJKLMNOPQRSTUVWXYZ"

LowerChars == "abcdefghijklmnopqrstuvwxyz"

\* the lower-case letter of each upper-case letter
LowerOf ==
  LET letters == {SubSeq(UpperChars, i, i) : i \in 1..26}
  IN [c \in letters |->
        LET i == CHOOSE j \in 1..26 : SubSeq(UpperChars, j, j) = c
        IN SubSeq(LowerChars, i, i)]

toLowerCaseChar(c) == IF c \in DOMAIN LowerOf THEN LowerOf[c] ELSE c

RECURSIVE toLowerCase(_)
\* s.toLowerCase(), by halves
toLowerCase(s) ==
  IF Len(s) = 0 THEN ""
  ELSE IF Len(s) = 1 THEN toLowerCaseChar(s)
  ELSE toLowerCase(SubSeq(s, 1, Len(s) \div 2))
         \o toLowerCase(SubSeq(s, Len(s) \div 2 + 1, Len(s)))

IsWhitespace(c) == c \in {" ", "\t", "\n", "\r"}

RECURSIVE trimStart(_)
trimStart(s) ==
  IF Len(s) > 0 /\ IsWhitespace(SubSeq(s, 1, 1))
  THEN trimStart(SubSeq(s, 2, Len(s)))
  ELSE s

RECURSIVE trimEnd(_)
trimEnd(s) ==
  IF Len(s) > 0 /\ IsWhitespace(SubSeq(s, Len(s), Len(s)))
  THEN trimEnd(SubSeq(s, 1, Len(s) - 1))
  ELSE s

\* s.trim()
trim(s) == trimEnd(trimStart(s))

\* s.includes(t)
includes(s, t) ==
  \E i \in 0..(Len(s) - Len(t)) : SubSeq(s, i + 1, i + Len(t)) = t

\* s.endsWith(t)
endsWith(s, t) ==
  Len(s) >= Len(t) /\ SubSeq(s, Len(s) - Len(t) + 1, Len(s)) = t

\* s.split(sep) for a one-character separator
split(s, sep) ==
  LET at == {i \in 1..Len(s) : SubSeq(s, i, i) = sep}
      n == Cardinality(at)
      pos(j) == IF j = 0 THEN 0
                ELSE IF j = n + 1 THEN Len(s) + 1
                ELSE CHOOSE i \in at : Cardinality({x \in at : x < i}) = j - 1
  IN [j \in 1..(n + 1) |-> SubSeq(s, pos(j - 1) + 1, pos(j) - 1)]

Digits == "0123456789"

IsDigit(c) == \E i \in 1..10 : SubSeq(Digits, i, i) = c

RECURSIVE NumberToString(_)
\* `${n}` for a non-negative integer n
NumberToString(n) ==
  IF n < 10 THEN SubSeq(Digits, n + 1, n + 1)
  ELSE NumberToString(n \div 10) \o SubSeq(Digits, (n % 10) + 1, (n % 10) + 1)

RECURSIVE LeadingDigits(_)
\* number of digits at the start of s
LeadingDigits(s) ==
  IF Len(s) > 0 /\ IsDigit(SubSeq(s, 1, 1))
  THEN 1 + LeadingDigits(SubSeq(s, 2, Len(s)))
  ELSE 0

\* s.replace(/^\d+\.\s*/, '')
stripNumbering(s) ==
  LET k == LeadingDigits(s)
  IN IF k >= 1 /\ charAt(s, k) = "."
     THEN trimStart(SubSeq(s, k + 2, Len(s)))
     ELSE s

\* s.replace(/^[-*]\s*/, '')
stripBullet(s) ==
  IF Len(s) > 0 /\ SubSeq(s, 1, 1) \in {"-", "*"}
  THEN trimStart(SubSeq(s, 2, Len(s)))
  ELSE s

----------------------------------------------------------------------------
(* Array.prototype helpers *)

\* a.slice(0, n)
slice(a, n) == SubSeq(a, 1, Min(n, Len(a)))

\* a JavaScript string as a typed value
Str(s) == [t |-> "string", v |-> s]

----------------------------------------------------------------------------
(* aiService.js: the question generator *)

IsOpenPR(pr) == pr.state = "OPEN"

RECURSIVE openPRsOf(_)
\* prs.filter(pr => pr.state === 'OPEN')
openPRsOf(prs) ==
  IF Len(prs) = 0 THEN <<>>
  ELSE (IF IsOpenPR(Head(prs)) THEN <<Head(prs)>> ELSE <<>>) \o openPRsOf(Tail(prs))

FallbackMaxBlockerChars == 50

FallbackOpenPRThreshold == 2

FallbackTaskThreshold == 5

DefaultQuestions ==
  << Str("Are there any dependencies on other team members that might affect your today's plan?"),
     Str("Do you need any additional resources or support to complete your planned work?"),
     Str("Are there any risks or concerns about meeting your sprint commitments?") >>

\* faulty variant of HasBlockers: the comparison with 'none' without toLowerCase
HasBlockersCaseSensitive(standupData) ==
  /\ standupData.blockers # ""
  /\ standupData.blockers # "none"
  /\ trim(standupData.blockers) # ""

\* the blockers text is worth probing
HasBlockers(standupData) ==
  /\ standupData.blockers # ""
  /\ toLowerCase(standupData.blockers) # "none"
  /\ trim(standupData.blockers) # ""

BlockerQuestions(standupData) ==
  << Str("What specific help do you need to resolve the blocker: \""
           \o substring(standupData.blockers, 0, FallbackMaxBlockerChars) \o "...\"?"),
     Str("How long do you estimate it will take to resolve your current blockers?") >>

PRQuestion(prs) ==
  Str("You have " \o NumberToString(Len(openPRsOf(prs)))
        \o " open PRs. Which ones are priority for review and merge?")

TaskQuestion(tasks) ==
  Str("With " \o NumberToString(Len(tasks))
        \o " assigned tasks, how are you prioritizing your work?")

\* faulty variant of generateFallbackQuestions: the task question is pushed
\* before the review question
generateFallbackQuestionsTasksFirst(standupData, tasks, prs) ==
  LET q1 == IF HasBlockers(standupData) THEN BlockerQuestions(standupData) ELSE <<>>
      q2 == IF Len(tasks) > FallbackTaskThreshold
            THEN q1 \o <<TaskQuestion(tasks)>> ELSE q1
      q3 == IF Len(openPRsOf(prs)) > FallbackOpenPRThreshold
            THEN q2 \o <<PRQuestion(prs)>> ELSE q2
  IN IF Len(q3) = 0 THEN DefaultQuestions ELSE q3

generateFallbackQuestions(standupData, tasks, prs) ==
  LET q1 == IF HasBlockers(standupData) THEN BlockerQuestions(standupData) ELSE <<>>
      q2 == IF Len(openPRsOf(prs)) > FallbackOpenPRThreshold
            THEN q1 \o <<PRQuestion(prs)>> ELSE q1
      q3 == IF Len(tasks) > FallbackTaskThreshold
            THEN q2 \o <<TaskQuestion(tasks)>> ELSE q2
  IN IF Len(q3) = 0 THEN DefaultQuestions ELSE q3

MinQuestionLineLength == 10

MinCleanedLength == 5

\* one line of the model's text: the question it holds, if any
ExtractLine(line) ==
  LET trimmed == trim(line)
      cleaned == trim(stripBullet(stripNumbering(trimmed)))
  IN IF endsWith(trimmed, "?") /\ Len(trimmed) > MinQuestionLineLength
        /\ Len(cleaned) > MinCleanedLength
     THEN <<Str(cleaned)>>
     ELSE <<>>

RECURSIVE ExtractLines(_)
ExtractLines(lines) ==
  IF Len(lines) = 0 THEN <<>>
  ELSE ExtractLine(Head(lines)) \o ExtractLines(Tail(lines))

extractQuestionsFromText(text) == ExtractLines(split(text, "\n"))

MaxQuestions == 5

(* What the model adapter did with one call:                               *)
(*   kind = "throws"       bedrockClient.send rejected                     *)
(*   kind = "undecodable"  JSON.parse of the response body threw           *)
(*   kind = "no_text"      responseBody.content[0].text threw or is not    *)
(*                         a string                                        *)
(*   kind = "text"         content[0].text is `text`; isJSON says whether  *)
(*                         JSON.parse(text) succeeds, isArray/items give   *)
(*                         the parsed value.                               *)
BedrockResult(kind, isJSON, isArray, items, text) ==
  [kind |-> kind, isJSON |-> isJSON, isArray |-> isArray, items |-> items, text |-> text]

\* what an async function hands to its caller
Returned(v) == [threw |-> FALSE, value |-> v]

Thrown == [threw |-> TRUE, value |-> <<>>]

\* lines 66-89: the questions taken from the response text
QuestionsFromContent(out, fallback) ==
  LET parsedIsArray == IF out.isJSON THEN out.isArray ELSE TRUE
      parsed == IF out.isJSON THEN out.items ELSE extractQuestionsFromText(out.text)
  IN IF ~parsedIsArray \/ Len(parsed) = 0 THEN fallback ELSE parsed

\* faulty variant of generateFollowUpQuestions: without the outer try/catch of
\* lines 11 and 91-96, a rejected call or an undecodable body reaches the caller
generateFollowUpQuestionsUncaught(standupData, previousUpdates, tasks, prs, out) ==
  LET fallback == generateFallbackQuestions(standupData, tasks, prs)
  IN CASE out.kind \in {"throws", "undecodable"} -> Thrown
       [] out.kind = "no_text" -> Returned(slice(fallback, MaxQuestions))
       [] OTHER -> Returned(slice(QuestionsFromContent(out, fallback), MaxQuestions))

\* lines 10-97
generateFollowUpQuestions(standupData, previousUpdates, tasks, prs, out) ==
  LET fallback == generateFallbackQuestions(standupData, tasks, prs)
  IN CASE out.kind \in {"throws", "undecodable"} -> Returned(fallback)
       [] out.kind = "no_text" -> Returned(slice(fallback, MaxQuestions))
       [] OTHER -> Returned(slice(QuestionsFromContent(out, fallback), MaxQuestions))

----------------------------------------------------------------------------
(* storageService.js: the record store (an S3 bucket)                      *)
(*                                                                         *)
(* An object key `standups/${fmt}/${member}/${name}.${fmt}` is the record  *)
(* [fmt, member, name]; name is a date (YYYY-MM-DD) or a record id.  The   *)
(* store maps the keys that exist to [kind, items, LastModified]: a JSON   *)
(* array (kind "array"), a JSON object (kind "object", one item) or a CSV  *)
(* text (kind "csv", its lines).  JSON.stringify and JSON.parse of these   *)
(* records keep their structure, so a body is held parsed.                 *)

\* process.env.STORAGE_TYPE || 'both'
STORAGE_TYPE == "both"

\* uuid.v4() of the r-th request: opaque, all different
UUIDs == <<"f47ac10b", "1b9d6bcd", "c9bf9e57", "0e37df36", "9a4f2c1d", "6ba7b810", "e4eaaaf2">>

uuid(r) == IF r <= Len(UUIDs) THEN UUIDs[r] ELSE "d" \o NumberToString(r)

\* new Date().toISOString().split('T')[0] at clock value t
DayOf(t) == t \div TicksPerDay

DateString(t) == "2024-01-" \o (IF DayOf(t) + 1 < 10 THEN "0" ELSE "") \o NumberToString(DayOf(t) + 1)

Key(fmt, member, name) == [fmt |-> fmt, member |-> member, name |-> name]

S3Object(kind, items, t) == [kind |-> kind, items |-> items, LastModified |-> t]

\* position of the first character of s in ASCII order, among the characters
\* that start a member name or a file name
AsciiOrder == "-.0123456789:TZabcdefghijklmnopqrstuvwxyz"

RECURSIVE StringLess(_, _)
\* a < b in the order S3 lists keys (UTF-8 binary order)
StringLess(a, b) ==
  IF Len(b) = 0 THEN FALSE
  ELSE IF Len(a) = 0 THEN TRUE
  ELSE LET ra == CHOOSE i \in 1..Len(AsciiOrder) : SubSeq(AsciiOrder, i, i) = SubSeq(a, 1, 1)
           rb == CHOOSE i \in 1..Len(AsciiOrder) : SubSeq(AsciiOrder, i, i) = SubSeq(b, 1, 1)
       IN IF SubSeq(a, 1, 1) = SubSeq(b, 1, 1)
          THEN StringLess(SubSeq(a, 2, Len(a)), SubSeq(b, 2, Len(b)))
          ELSE ra < rb

KeyLess(k1, k2) ==
  IF k1.fmt # k2.fmt THEN StringLess(k1.fmt, k2.fmt)
  ELSE IF k1.member # k2.member THEN StringLess(k1.member, k2.member)
  ELSE StringLess(k1.name, k2.name)

RECURSIVE InsertKey(_, _)
\* the key k put into a, which is in listing order
InsertKey(a, k) ==
  IF Len(a) = 0 THEN <<k>>
  ELSE IF KeyLess(k, Head(a)) THEN <<k>> \o a
       ELSE <<Head(a)>> \o InsertKey(Tail(a), k)

RECURSIVE SortKeys(_)
\* the keys of S in listing order
SortKeys(S) ==
  IF S = {} THEN <<>>
  ELSE LET k == CHOOSE x \in S : TRUE
       IN InsertKey(SortKeys(S \ {k}), k)

\* listObjectsFromS3(prefix): Contents, or [] when the listing fails.
\* prefix `standups/${fmt}/` is member = "", `standups/${fmt}/${member}/` names one
listObjectsFromS3(st, fmt, member, listOk) ==
  IF ~listOk THEN <<>>
  ELSE LET keys == {k \in DOMAIN st : k.fmt = fmt /\ (member = "" \/ k.member = member)}
           sorted == SortKeys(keys)
       IN [i \in 1..Len(sorted) |-> [Key |-> sorted[i], LastModified |-> st[sorted[i]].LastModified]]

(* getObjectFromS3(key).  `failed` is the set of keys whose GetObject      *)
(* fails with an error other than NoSuchKey.                               *)
\*   status "data": the body; "null": NoSuchKey; "throws": any other error
getObjectFromS3(st, key, failed) ==
  IF key \in failed THEN [status |-> "throws", kind |-> "", items |-> <<>>]
  ELSE IF key \notin DOMAIN st THEN [status |-> "null", kind |-> "", items |-> <<>>]
  ELSE [status |-> "data", kind |-> st[key].kind, items |-> st[key].items]

\* putObjectToS3(key, data) that succeeded at clock value t
putObjectToS3(st, key, kind, items, t) ==
  [k \in DOMAIN st \cup {key} |-> IF k = key THEN S3Object(kind, items, t) ELSE st[k]]

RECURSIVE InsertDesc(_, _)
\* the pair x = <<rank, value>> put into a, sorted by falling rank, behind its equals
InsertDesc(a, x) ==
  IF Len(a) = 0 THEN <<x>>
  ELSE IF x[1] > Head(a)[1] THEN <<x>> \o a
       ELSE <<Head(a)>> \o InsertDesc(Tail(a), x)

RECURSIVE SortDesc(_)
\* Array.prototype.sort((a, b) => rank(b) - rank(a)) on <<rank, value>> pairs: stable
SortDesc(a) ==
  IF Len(a) = 0 THEN <<>>
  ELSE InsertDesc(SortDesc(SubSeq(a, 1, Len(a) - 1)), a[Len(a)])

\* objects.sort((a, b) => new Date(b.LastModified) - new Date(a.LastModified))
SortByLastModified(objects) ==
  LET sorted == SortDesc([i \in 1..Len(objects) |-> <<objects[i].LastModified, objects[i]>>])
  IN [i \in 1..Len(sorted) |-> sorted[i][2]]

\* updates.sort((a, b) => new Date(b.timestamp) - new Date(a.timestamp))
SortByTimestamp(updates) ==
  LET sorted == SortDesc([i \in 1..Len(updates) |-> <<updates[i].timestamp, updates[i]>>])
  IN [i \in 1..Len(sorted) |-> sorted[i][2]]

RECURSIVE ReadAll(_, _, _)
\* the records of the listed objects, in order; an object whose read fails is skipped
ReadAll(st, objects, failed) ==
  IF Len(objects) = 0 THEN <<>>
  ELSE LET data == getObjectFromS3(st, Head(objects).Key, failed)
       IN (IF data.status = "data" THEN data.items ELSE <<>>)
            \o ReadAll(st, Tail(objects), failed)

DefaultLimit == 10

\* faulty variant of getPreviousUpdates: without the try/catch of lines 182-194
\* a read that fails reaches the catch of lines 202-205
getPreviousUpdatesAllOrNothing(st, teamMemberName, limit, listOk, failed) ==
  LET objects == listObjectsFromS3(st, "json", teamMemberName, listOk)
      recent == slice(SortByLastModified(objects), limit)
      updates == ReadAll(st, recent, failed)
  IN IF \E i \in 1..Len(recent) : recent[i].Key \in failed
     THEN <<>>
     ELSE slice(SortByTimestamp(updates), limit)

getPreviousUpdates(st, teamMemberName, limit, listOk, failed) ==
  LET objects == listObjectsFromS3(st, "json", teamMemberName, listOk)
      recent == slice(SortByLastModified(objects), limit)
      updates == ReadAll(st, recent, failed)
  IN slice(SortByTimestamp(updates), limit)

----------------------------------------------------------------------------
(* JavaScript numbers: IEEE-754 binary64, round to nearest, ties to even.   *)
(* A natural number of any size is a sequence of limbs, least significant  *)
(* first, without leading zero limbs; a double that is no integer is       *)
(* sign * m * 2^e with m of exactly MantissaBits bits (zero: m = <<>>).    *)
(* Subnormals, infinities and NaN do not occur in the quantities modelled. *)

RECURSIVE NatBitLen(_)
\* the number of binary digits of n
NatBitLen(n) == IF n = 0 THEN 0 ELSE 1 + NatBitLen(n \div 2)

\* the limbs are small enough for a product of two to fit a machine integer
Base == 2 ^ 14

LimbBits == NatBitLen(Base) - 1

\* 52 stored bits and the implicit leading one
MantissaBits == 52 + 1

RECURSIVE BigNorm(_)
\* without leading zero limbs
BigNorm(a) ==
  IF Len(a) > 0 /\ a[Len(a)] = 0 THEN BigNorm(SubSeq(a, 1, Len(a) - 1)) ELSE a

RECURSIVE BigFromNat(_)
BigFromNat(n) == IF n = 0 THEN <<>> ELSE <<n % Base>> \o BigFromNat(n \div Base)

RECURSIVE BigToNat(_)
\* for a value that fits a machine integer
BigToNat(a) == IF Len(a) = 0 THEN 0 ELSE a[1] + Base * BigToNat(Tail(a))

Limb(a, i) == IF i >= 1 /\ i <= Len(a) THEN a[i] ELSE 0

RECURSIVE BigCarry(_, _)
\* limbs that may exceed Base - 1, with the carry c brought in
BigCarry(cols, c) ==
  IF Len(cols) = 0 THEN BigFromNat(c)
  ELSE <<(Head(cols) + c) % Base>> \o BigCarry(Tail(cols), (Head(cols) + c) \div Base)

BigAdd(a, b) ==
  BigNorm(BigCarry([i \in 1..Max(Len(a), Len(b)) |-> Limb(a, i) + Limb(b, i)], 0))

RECURSIVE BigBorrow(_, _, _)
BigBorrow(a, b, c) ==
  IF Len(a) = 0 THEN <<>>
  ELSE LET d == Head(a) - (IF Len(b) > 0 THEN Head(b) ELSE 0) - c
       IN <<IF d < 0 THEN d + Base ELSE d>>
            \o BigBorrow(Tail(a), IF Len(b) > 0 THEN Tail(b) ELSE <<>>,
                         IF d < 0 THEN 1 ELSE 0)

\* a - b for a >= b
BigSub(a, b) == BigNorm(BigBorrow(a, b, 0))

\* a < b
BigLess(a, b) ==
  \/ Len(a) < Len(b)
  \/ /\ Len(a) = Len(b)
     /\ \E i \in 1..Len(a) :
          a[i] < b[i] /\ \A j \in (i + 1)..Len(a) : a[j] = b[j]

RECURSIVE SumTo(_, _)
\* f[1] + ... + f[n]
SumTo(f, n) == IF n = 0 THEN 0 ELSE f[n] + SumTo(f, n - 1)

\* a * b, each of at most 4 limbs
BigMul(a, b) ==
  IF Len(a) = 0 \/ Len(b) = 0 THEN <<>>
  ELSE BigNorm(BigCarry([k \in 1..(Len(a) + Len(b) - 1) |->
                           SumTo([i \in 1..Len(a) |-> a[i] * Limb(b, k - i + 1)], Len(a))],
                        0))

\* a * 2^n
BigShl(a, n) ==
  LET s == n % LimbBits
      shifted == [j \in 1..(Len(a) + 1) |->
                    (Limb(a, j) % (2 ^ (LimbBits - s))) * (2 ^ s)
                      + Limb(a, j - 1) \div (2 ^ (LimbBits - s))]
  IN IF Len(a) = 0 THEN <<>>
     ELSE BigNorm([j \in 1..(n \div LimbBits) |-> 0] \o shifted)

\* a \div 2^n
BigShr(a, n) ==
  LET s == n % LimbBits
      d == n \div LimbBits
  IN IF d >= Len(a) THEN <<>>
     ELSE BigNorm([j \in 1..(Len(a) - d) |->
                     Limb(a, j + d) \div (2 ^ s)
                       + (Limb(a, j + d + 1) % (2 ^ s)) * (2 ^ (LimbBits - s))])

BigBitLen(a) ==
  IF Len(a) = 0 THEN 0 ELSE LimbBits * (Len(a) - 1) + NatBitLen(a[Len(a)])

\* bit i of a, bit 0 the least significant
BigBit(a, i) == (Limb(a, i \div LimbBits + 1) \div (2 ^ (i % LimbBits))) % 2

RECURSIVE BigDivSmall(_, _, _)
\* <<a \div d, a % d>> for a small d, the remainder r brought in from above
BigDivSmall(a, d, r) ==
  IF Len(a) = 0 THEN <<<<>>, r>>
  ELSE LET cur == r * Base + a[Len(a)]
           rest == BigDivSmall(SubSeq(a, 1, Len(a) - 1), d, cur % d)
       IN <<rest[1] \o <<cur \div d>>, rest[2]>>

Double(sign, m, e) == [sign |-> sign, m |-> m, e |-> e]

DoubleZero == Double(1, <<>>, 0)

\* the double nearest to sign * n * 2^e, ties to even
RoundToDouble(sign, n, e) ==
  LET len == BigBitLen(n)
      s == len - MantissaBits
      q == BigShr(n, s)
      guard == BigBit(n, s - 1) = 1
      sticky == BigShl(BigShr(n, s - 1), s - 1) # n
      up == guard /\ (sticky \/ BigBit(q, 0) = 1)
      q1 == IF up THEN BigAdd(q, <<1>>) ELSE q
  IN IF len = 0 THEN DoubleZero
     ELSE IF s <= 0 THEN Double(sign, BigShl(n, 0 - s), e + s)
     ELSE IF BigBitLen(q1) > MantissaBits THEN Double(sign, BigShr(q1, 1), e + s + 1)
     ELSE Double(sign, q1, e + s)

\* Number(n) for an integer n
FromInt(n) == RoundToDouble(IF n < 0 THEN -1 ELSE 1, BigFromNat(IF n < 0 THEN 0 - n ELSE n), 0)

\* the double num / den of two positive integers that are doubles themselves;
\* also the value of a decimal literal num/den
QuotientBits == 5 * LimbBits

Divide(num, den) ==
  LET qr == BigDivSmall(BigShl(BigFromNat(num), QuotientBits), den, 0)
      q == BigNorm(qr[1])
  IN RoundToDouble(1, BigAdd(BigShl(q, 1), IF qr[2] # 0 THEN <<1>> ELSE <<>>),
                   0 - QuotientBits - 1)

\* x * y
Times(x, y) == RoundToDouble(x.sign * y.sign, BigMul(x.m, y.m), x.e + y.e)

\* x + y
Plus(x, y) ==
  LET e == Min(x.e, y.e)
      a == BigShl(x.m, x.e - e)
      b == BigShl(y.m, y.e - e)
  IN IF Len(x.m) = 0 THEN y
     ELSE IF Len(y.m) = 0 THEN x
     ELSE IF x.sign = y.sign THEN RoundToDouble(x.sign, BigAdd(a, b), e)
     ELSE IF BigLess(a, b) THEN RoundToDouble(y.sign, BigSub(b, a), e)
     ELSE RoundToDouble(x.sign, BigSub(a, b), e)

Negate(x) == Double(0 - x.sign, x.m, x.e)

\* x - y
Minus(x, y) == Plus(x, Negate(y))

\* x < y
Less(x, y) ==
  LET d == Minus(x, y)
  IN Len(d.m) > 0 /\ d.sign < 0

\* x > y
Greater(x, y) == Less(y, x)

\* Math.round(x) for x >= 0: the nearest integer, a tie upwards
MathRound(x) ==
  IF Len(x.m) = 0 THEN 0
  ELSE IF x.e >= 0 THEN BigToNat(BigShl(x.m, x.e))
  ELSE BigToNat(BigShr(BigAdd(x.m, BigShl(<<1>>, 0 - x.e - 1)), 0 - x.e))

----------------------------------------------------------------------------
(* storageService.js: the team metrics *)

\* new Date(t).toISOString(): the text a record's timestamp is stored as
toISOString(t) ==
  DateString(t) \o "T" \o (IF t % TicksPerDay < 10 THEN "0" ELSE "")
    \o NumberToString(t % TicksPerDay) \o ":00:00.000Z"

\* a number of hundredths as the double the program holds: h / 100
Hundredths(h) == Divide(h, 100)

\* Math.round(num / den * 100) / 100, in hundredths
RoundedAverage(num, den) == MathRound(Times(Divide(num, den), FromInt(100)))

\* Math.round((num / den) * 100)
RoundedPercent(num, den) == MathRound(Times(Divide(num, den), FromInt(100)))

BlockerKeyLength == 50

TopBlockersLimit == 5

\* the standup is counted as a blocker by getTeamMetrics
IsTeamBlocker(standup) ==
  standup.blockers # "" /\ toLowerCase(standup.blockers) # "none"

\* blockerFrequency[key] = (blockerFrequency[key] || 0) + 1; freq lists the
\* properties of the object in the order of their creation
CountBlocker(freq, key) ==
  IF \E i \in 1..Len(freq) : freq[i].blocker = key
  THEN [i \in 1..Len(freq) |->
          IF freq[i].blocker = key
          THEN [blocker |-> key, count |-> freq[i].count + 1] ELSE freq[i]]
  ELSE Append(freq, [blocker |-> key, count |-> 1])

\* faulty variant of NewMemberStats: the first standup of a member is counted twice
NewMemberStatsCounted ==
  [standupCount |-> 1, totalTasks |-> 0, totalPRs |-> 0, blockers |-> <<>>]

\* lines 309-316
NewMemberStats == [standupCount |-> 0, totalTasks |-> 0, totalPRs |-> 0, blockers |-> <<>>]

\* lines 306-330: one standup added to the running totals
AddStandup(acc, standup) ==
  LET m == standup.teamMemberName
      old == IF m \in DOMAIN acc.memberStats THEN acc.memberStats[m] ELSE NewMemberStats
      isBlocker == IsTeamBlocker(standup)
      new == [standupCount |-> old.standupCount + 1,
              totalTasks |-> old.totalTasks + Len(standup.jiraTasks),
              totalPRs |-> old.totalPRs + Len(standup.bitbucketPRs),
              blockers |-> IF isBlocker THEN Append(old.blockers, standup.blockers)
                           ELSE old.blockers]
  IN [allStandups |-> Append(acc.allStandups, standup),
      memberStats |-> [x \in DOMAIN acc.memberStats \cup {m} |->
                         IF x = m THEN new ELSE acc.memberStats[x]],
      blockerFrequency |->
        IF isBlocker
        THEN CountBlocker(acc.blockerFrequency,
                          substring(toLowerCase(standup.blockers), 0, BlockerKeyLength))
        ELSE acc.blockerFrequency]

\* faulty variant of InWindow: the end of the window is not looked at
InWindowStartOnly(standup, startDate, endDate) ==
  ~(startDate # "" /\ StringLess(toISOString(standup.timestamp), startDate))

\* faulty variant of InWindow: a standup older than a day is left out, so that
\* the metrics depend on the time of the query
InWindowOfLastDay(standup, startDate, endDate) ==
  /\ ~(startDate # "" /\ StringLess(toISOString(standup.timestamp), startDate))
  /\ ~(endDate # "" /\ StringLess(endDate, toISOString(standup.timestamp)))
  /\ standup.timestamp + TicksPerDay > clock

\* lines 303-304: the standup lies in the window; "" is a bound not given
InWindow(standup, startDate, endDate) ==
  /\ ~(startDate # "" /\ StringLess(toISOString(standup.timestamp), startDate))
  /\ ~(endDate # "" /\ StringLess(endDate, toISOString(standup.timestamp)))

RECURSIVE Aggregate(_, _, _, _)
Aggregate(acc, standups, startDate, endDate) ==
  IF Len(standups) = 0 THEN acc
  ELSE Aggregate(IF InWindow(Head(standups), startDate, endDate)
                 THEN AddStandup(acc, Head(standups)) ELSE acc,
                 Tail(standups), startDate, endDate)

RECURSIVE SumOver(_, _)
\* Object.values(memberStats).reduce over the field f
SumOver(stats, f) ==
  IF DOMAIN stats = {} THEN 0
  ELSE LET m == CHOOSE x \in DOMAIN stats : TRUE
       IN stats[m][f] + SumOver([x \in DOMAIN stats \ {m} |-> stats[x]], f)

\* the largest array index, 2^32 - 2, as a property key
MaxArrayIndex == "4294967294"

\* a < b for two canonical numeric strings
IndexLess(a, b) == Len(a) < Len(b) \/ (Len(a) = Len(b) /\ StringLess(a, b))

\* the property key is an array index: the canonical text of an integer in 0..2^32 - 2
IsArrayIndex(key) ==
  /\ Len(key) > 0
  /\ LeadingDigits(key) = Len(key)
  /\ Len(key) = 1 \/ SubSeq(key, 1, 1) # "0"
  /\ ~IndexLess(MaxArrayIndex, key)

RECURSIVE InsertIndex(_, _)
\* the entry e put into a, which is sorted by rising array index
InsertIndex(a, e) ==
  IF Len(a) = 0 THEN <<e>>
  ELSE IF IndexLess(e.blocker, Head(a).blocker) THEN <<e>> \o a
       ELSE <<Head(a)>> \o InsertIndex(Tail(a), e)

RECURSIVE SortIndex(_)
SortIndex(a) ==
  IF Len(a) = 0 THEN <<>> ELSE InsertIndex(SortIndex(Tail(a)), Head(a))

\* Object.entries(blockerFrequency): the own properties in the order of
\* OrdinaryOwnPropertyKeys, array indices rising first, then the other keys
\* in the order of their creation
ObjectEntries(freq) ==
  SortIndex(SelectSeq(freq, LAMBDA e : IsArrayIndex(e.blocker)))
    \o SelectSeq(freq, LAMBDA e : ~IsArrayIndex(e.blocker))

\* Object.entries(blockerFrequency).sort(([,a], [,b]) => b - a).slice(0, 5)
TopBlockers(freq) ==
  LET entries == ObjectEntries(freq)
      sorted == SortDesc([i \in 1..Len(entries) |-> <<entries[i].count, entries[i]>>])
  IN slice([i \in 1..Len(sorted) |-> sorted[i][2]], TopBlockersLimit)

EmptyMetrics ==
  [totalStandups |-> 0, activeMembers |-> 0, averageTasksPerMember |-> 0,
   averagePRsPerMember |-> 0, topBlockers |-> <<>>]

\* the averages are in hundredths: 300 is 3.0
getTeamMetrics(st, startDate, endDate, listOk, failed) ==
  LET objects == listObjectsFromS3(st, "json", "", listOk)
      acc == Aggregate([allStandups |-> <<>>, memberStats |-> <<>>, blockerFrequency |-> <<>>],
                       ReadAll(st, objects, failed), startDate, endDate)
      activeMembers == Cardinality(DOMAIN acc.memberStats)
      totalTasks == SumOver(acc.memberStats, "totalTasks")
      totalPRs == SumOver(acc.memberStats, "totalPRs")
  IN IF Len(objects) = 0 THEN EmptyMetrics
     ELSE [totalStandups |-> Len(acc.allStandups),
           activeMembers |-> activeMembers,
           averageTasksPerMember |->
             IF activeMembers > 0 THEN RoundedAverage(totalTasks, activeMembers) ELSE 0,
           averagePRsPerMember |->
             IF activeMembers > 0 THEN RoundedAverage(totalPRs, activeMembers) ELSE 0,
           topBlockers |-> TopBlockers(acc.blockerFrequency),
           memberStats |-> acc.memberStats]

----------------------------------------------------------------------------
(* dataHandler.js: the member summary *)

RECURSIVE SumLengths(_, _)
\* recentUpdates.reduce((sum, update) => sum + (update[f]?.length || 0), 0)
SumLengths(updates, f) ==
  IF Len(updates) = 0 THEN 0
  ELSE Len(Head(updates)[f]) + SumLengths(Tail(updates), f)

\* the update is counted as a blocker by calculateMemberSummary
IsMemberBlocker(update) ==
  /\ update.blockers # ""
  /\ toLowerCase(update.blockers) # "none"
  /\ trim(update.blockers) # ""

RECURSIVE CountBlockers(_)
CountBlockers(updates) ==
  IF Len(updates) = 0 THEN 0
  ELSE (IF IsMemberBlocker(Head(updates)) THEN 1 ELSE 0) + CountBlockers(Tail(updates))

MaxExpectedStandups == 30

\* the averages are in hundredths; blockerFrequency is a whole percentage
calculateMemberSummary(recentUpdates, days) ==
  LET n == Len(recentUpdates)
      averageTasksPerStandup == RoundedAverage(SumLengths(recentUpdates, "jiraTasks"), n)
      averagePRsPerStandup == RoundedAverage(SumLengths(recentUpdates, "bitbucketPRs"), n)
      blockerFrequency == RoundedPercent(CountBlockers(recentUpdates), n)
      productivityScore ==
        Minus(Plus(Times(Hundredths(averageTasksPerStandup), FromInt(2)),
                   Hundredths(averagePRsPerStandup)),
              Divide(blockerFrequency, 10))
      expectedStandups == Min(days, MaxExpectedStandups)
      consistencyRate == Times(Divide(n, expectedStandups), FromInt(100))
  IN IF n = 0
     THEN [totalStandups |-> 0, averageTasksPerStandup |-> 0, averagePRsPerStandup |-> 0,
           blockerFrequency |-> 0, productivity |-> "No data", consistency |-> "No data"]
     ELSE [totalStandups |-> n,
           averageTasksPerStandup |-> averageTasksPerStandup,
           averagePRsPerStandup |-> averagePRsPerStandup,
           blockerFrequency |-> blockerFrequency,
           productivity |-> IF Greater(productivityScore, FromInt(8)) THEN "High"
                            ELSE IF Greater(productivityScore, FromInt(4)) THEN "Medium"
                            ELSE "Low",
           consistency |-> IF Greater(consistencyRate, FromInt(80)) THEN "Excellent"
                           ELSE IF Greater(consistencyRate, FromInt(60)) THEN "Good"
                           ELSE IF Greater(consistencyRate, FromInt(40)) THEN "Fair"
                           ELSE "Poor"]

DefaultSummaryDays == 30

MaxSummaryUpdates == 50

\* lines 143-161: data.summary of the answer; without recent updates the
\* summary is written out in the handler and has no consistency
MemberSummary(recentUpdates, days) ==
  IF Len(recentUpdates) = 0
  THEN [totalStandups |-> 0, averageTasksPerStandup |-> 0, averagePRsPerStandup |-> 0,
        blockerFrequency |-> 0, productivity |-> "No data"]
  ELSE calculateMemberSummary(recentUpdates, days)

\* dataHandler.getTeamMemberSummary, lines 131-165: the summary of a member
getTeamMemberSummary(st, teamMember, days, listOk, failed) ==
  MemberSummary(getPreviousUpdates(st, teamMember, Min(days, MaxSummaryUpdates),
                                   listOk, failed), days)

----------------------------------------------------------------------------
(* dataHandler.js: the insights and the recommendations of the team *)

TeamInsight(type, message, priority) ==
  [type |-> type, message |-> message, priority |-> priority]

\* lines 347-354
NoDataInsight == TeamInsight("info", "No standup data available yet", "low")

\* lines 357-372: the standups per member; nothing without an active member
ParticipationInsights(metrics) ==
  IF metrics.activeMembers > 0
  THEN LET avgStandupsPerMember == Divide(metrics.totalStandups, metrics.activeMembers)
       IN IF Less(avgStandupsPerMember, FromInt(5))
          THEN <<TeamInsight("concern",
                             "Low standup participation - encourage regular updates",
                             "medium")>>
          ELSE IF Greater(avgStandupsPerMember, FromInt(20))
          THEN <<TeamInsight("positive", "Excellent standup participation across the team",
                             "low")>>
          ELSE <<>>
  ELSE <<>>

\* faulty variant of TaskLoadInsights: an average of exactly 8 counts as high
TaskLoadInsightsAtLeast(metrics) ==
  IF ~Less(Hundredths(metrics.averageTasksPerMember), FromInt(8))
  THEN <<TeamInsight("warning", "High average task load - consider workload distribution",
                     "high")>>
  ELSE <<>>

\* lines 375-381
TaskLoadInsights(metrics) ==
  IF Greater(Hundredths(metrics.averageTasksPerMember), FromInt(8))
  THEN <<TeamInsight("warning", "High average task load - consider workload distribution",
                     "high")>>
  ELSE <<>>

\* lines 383-389
ReviewInsights(metrics) ==
  IF Greater(Hundredths(metrics.averagePRsPerMember), FromInt(5))
  THEN <<TeamInsight("warning", "Many open PRs per member - prioritize reviews", "medium")>>
  ELSE <<>>

RecurringBlockerCount == 3

\* lines 392-401
BlockerInsights(metrics) ==
  IF "topBlockers" \in DOMAIN metrics /\ Len(metrics.topBlockers) > 0
       /\ metrics.topBlockers[1].count > RecurringBlockerCount
  THEN <<TeamInsight("concern",
                     "Recurring blocker detected: \"" \o metrics.topBlockers[1].blocker
                       \o "\" - needs attention",
                     "high")>>
  ELSE <<>>

\* faulty variant of generateTeamInsights: metrics without a standup get no insight
generateTeamInsightsNoZeroCase(metrics) ==
  ParticipationInsights(metrics) \o TaskLoadInsights(metrics)
    \o ReviewInsights(metrics) \o BlockerInsights(metrics)

\* lines 344-404
generateTeamInsights(metrics) ==
  IF metrics.totalStandups = 0 THEN <<NoDataInsight>>
  ELSE ParticipationInsights(metrics) \o TaskLoadInsights(metrics)
         \o ReviewInsights(metrics) \o BlockerInsights(metrics)

MinActiveMembers == 5

\* lines 409-442
generateTeamRecommendations(metrics) ==
  IF metrics.totalStandups = 0 THEN <<"Start conducting regular standup meetings">>
  ELSE LET recommendations ==
             (IF metrics.activeMembers < MinActiveMembers
              THEN <<"Encourage more team members to participate in standups">> ELSE <<>>)
             \o (IF Greater(Hundredths(metrics.averageTasksPerMember), FromInt(6))
                 THEN <<"Review task distribution and consider load balancing">> ELSE <<>>)
             \o (IF Greater(Hundredths(metrics.averagePRsPerMember), FromInt(3))
                 THEN <<"Implement regular PR review sessions">> ELSE <<>>)
             \o (IF "topBlockers" \in DOMAIN metrics /\ Len(metrics.topBlockers) > 2
                 THEN <<"Schedule blocker resolution sessions",
                        "Consider creating a blocker escalation process">>
                 ELSE <<>>)
       IN IF Len(recommendations) = 0
          THEN <<"Team metrics look healthy - keep up the good work!">>
          ELSE recommendations

\* the metrics with the error field of lines 358-368
FailedMetrics(message) == [x \in DOMAIN EmptyMetrics \cup {"error"} |->
                             IF x = "error" THEN message ELSE EmptyMetrics[x]]

----------------------------------------------------------------------------
(* dataHandler.js: the productivity of a member *)

\* lines 706-718; the literal 1.5 is the double 3/2
calculateProductivityScore(tasks, prs, blockers, standups) ==
  IF standups = 0 THEN "No data"
  ELSE LET taskScore == Times(Divide(tasks, standups), FromInt(2))
           prScore == Times(Divide(prs, standups), Divide(3, 2))
           blockerPenalty == Times(Divide(blockers, standups), FromInt(2))
           score == Minus(Plus(taskScore, prScore), blockerPenalty)
       IN IF Greater(score, FromInt(6)) THEN "High"
          ELSE IF Greater(score, FromInt(3)) THEN "Medium"
          ELSE "Low"

\* history.filter(entry => entry.blockers && entry.blockers.toLowerCase() !== 'none')
BlockerEntries(history) == SelectSeq(history, IsTeamBlocker)

\* lines 660-684; the averages are in hundredths, blockerRate is a whole percentage
calculateIndividualProductivity(teamMember, history) ==
  IF Len(history) = 0
  THEN [teamMember |-> teamMember, productivity |-> "No data", metrics |-> <<>>]
  ELSE LET totalTasks == SumLengths(history, "jiraTasks")
           totalPRs == SumLengths(history, "bitbucketPRs")
           totalBlockers == Len(BlockerEntries(history))
       IN [teamMember |-> teamMember,
           productivity |-> calculateProductivityScore(totalTasks, totalPRs, totalBlockers,
                                                       Len(history)),
           metrics |-> [totalStandups |-> Len(history),
                        averageTasksPerStandup |-> RoundedAverage(totalTasks, Len(history)),
                        averagePRsPerStandup |-> RoundedAverage(totalPRs, Len(history)),
                        blockerRate |-> RoundedPercent(totalBlockers, Len(history))]]

----------------------------------------------------------------------------
(* dataHandler.js: the trends of a member *)

RECURSIVE InsertAsc(_, _)
\* the pair x = <<rank, value>> put into a, sorted by rising rank, behind its equals
InsertAsc(a, x) ==
  IF Len(a) = 0 THEN <<x>>
  ELSE IF x[1] < Head(a)[1] THEN <<x>> \o a
       ELSE <<Head(a)>> \o InsertAsc(Tail(a), x)

RECURSIVE SortAsc(_)
\* Array.prototype.sort((a, b) => rank(a) - rank(b)) on <<rank, value>> pairs: stable
SortAsc(a) ==
  IF Len(a) = 0 THEN <<>>
  ELSE InsertAsc(SortAsc(SubSeq(a, 1, Len(a) - 1)), a[Len(a)])

\* [...recentUpdates].sort((a, b) => new Date(a.timestamp) - new Date(b.timestamp))
SortOldestFirst(updates) ==
  LET sorted == SortAsc([i \in 1..Len(updates) |-> <<updates[i].timestamp, updates[i]>>])
  IN [i \in 1..Len(sorted) |-> sorted[i][2]]

MinTrendRecords == 3

TrendSliceLength == 3

\* a.slice(-n)
sliceLast(a, n) == SubSeq(a, Max(Len(a) - n, 0) + 1, Len(a))

\* "Not enough data for trend analysis"
NoTrend == [message |-> "Not enough data for trend analysis"]

\* counts.reduce((sum, count) => sum + count, 0) / counts.length of the field f
AverageLength(updates, f) == Divide(SumLengths(updates, f), Len(updates))

\* lines 548-552: the direction of a metric; the literals 1.2 and 0.8 are the
\* doubles nearest to 6/5 and 4/5
Direction(recentAvg, earlierAvg) ==
  IF Greater(recentAvg, Times(earlierAvg, Divide(6, 5))) THEN "increasing"
  ELSE IF Less(recentAvg, Times(earlierAvg, Divide(4, 5))) THEN "decreasing"
  ELSE "stable"

\* lines 527-569
analyzeMemberTrends(recentUpdates) ==
  IF Len(recentUpdates) < MinTrendRecords THEN NoTrend
  ELSE LET sortedUpdates == SortOldestFirst(recentUpdates)
           recent == sliceLast(sortedUpdates, TrendSliceLength)
           earlier == slice(sortedUpdates, TrendSliceLength)
       IN [taskTrend |-> Direction(AverageLength(recent, "jiraTasks"),
                                   AverageLength(earlier, "jiraTasks")),
           prTrend |-> Direction(AverageLength(recent, "bitbucketPRs"),
                                 AverageLength(earlier, "bitbucketPRs")),
           blockerTrend |-> "stable"]

----------------------------------------------------------------------------
(* standupHandler.js: the insights of one submission *)

RecurringPrefixLength == 20

HighPRCountThreshold == 3

ManyCommentsThreshold == 10

Insight(type, priority) == [type |-> type, priority |-> priority]

RECURSIVE prsWithManyCommentsOf(_)
\* openPRs.filter(pr => pr.comment_count && pr.comment_count > 10)
prsWithManyCommentsOf(openPRs) ==
  IF Len(openPRs) = 0 THEN <<>>
  ELSE (IF Head(openPRs).comment_count > ManyCommentsThreshold
        THEN <<Head(openPRs)>> ELSE <<>>) \o prsWithManyCommentsOf(Tail(openPRs))

\* lines 146-163
IsRecurringBlocker(currentStandup, previousUpdates) ==
  /\ Len(previousUpdates) > 0
  /\ LET lastUpdate == previousUpdates[Len(previousUpdates)]
         currentBlockersLower == toLowerCase(currentStandup.blockers)
         lastBlockersLower == toLowerCase(lastUpdate.blockers)
     IN /\ lastUpdate.blockers # ""
        /\ currentStandup.blockers # ""
        /\ \/ includes(currentBlockersLower, substring(lastBlockersLower, 0, RecurringPrefixLength))
           \/ includes(lastBlockersLower, substring(currentBlockersLower, 0, RecurringPrefixLength))

generateInsights(currentStandup, previousUpdates) ==
  LET openPRs == openPRsOf(currentStandup.bitbucketPRs)
  IN (IF IsRecurringBlocker(currentStandup, previousUpdates)
      THEN <<Insight("recurring_blocker", "high")>> ELSE <<>>)
     \o (IF Len(openPRs) > HighPRCountThreshold
         THEN <<Insight("high_pr_count", "medium")>> ELSE <<>>)
     \o (IF Len(prsWithManyCommentsOf(openPRs)) > 0
         THEN <<Insight("pr_review_issues", "high")>> ELSE <<>>)

----------------------------------------------------------------------------
(* storageService.js: the write path *)

RECURSIVE Join(_, _)
\* a.join(sep) for an array of strings
Join(a, sep) ==
  IF Len(a) = 0 THEN ""
  ELSE IF Len(a) = 1 THEN a[1]
  ELSE a[1] \o sep \o Join(Tail(a), sep)

Column(name, value, isString) == [name |-> name, value |-> value, isString |-> isString]

\* the columns of the CSV row of a record, in the order of Object.keys
flattenStandupRecord(record) ==
  << Column("id", record.id, TRUE),
     Column("teamMemberName", record.teamMemberName, TRUE),
     Column("timestamp", toISOString(record.timestamp), TRUE),
     Column("yesterday", record.yesterday, TRUE),
     Column("today", record.today, TRUE),
     Column("blockers", record.blockers, TRUE),
     Column("jiraTasksCount", NumberToString(Len(record.jiraTasks)), FALSE),
     Column("bitbucketPRsCount", NumberToString(Len(record.bitbucketPRs)), FALSE),
     Column("openPRsCount", NumberToString(Len(openPRsOf(record.bitbucketPRs))), FALSE),
     Column("followUpQuestionsCount", NumberToString(Len(record.followUpQuestions)), FALSE),
     Column("previousUpdatesCount", NumberToString(record.previousUpdatesCount), FALSE) >>
  \o (IF Len(record.jiraTasks) > 0
      THEN << Column("jiraTaskKeys",
                     Join([i \in 1..Len(record.jiraTasks) |-> record.jiraTasks[i].key], ";"), TRUE),
              Column("jiraTaskStatuses",
                     Join([i \in 1..Len(record.jiraTasks) |-> "Unknown"], ";"), TRUE) >>
      ELSE <<>>)
  \o (IF Len(record.bitbucketPRs) > 0
      THEN << Column("prTitles",
                     Join([i \in 1..Len(record.bitbucketPRs) |-> record.bitbucketPRs[i].title], ";"), TRUE),
              Column("prStates",
                     Join([i \in 1..Len(record.bitbucketPRs) |-> record.bitbucketPRs[i].state], ";"), TRUE),
              Column("prCommentCounts",
                     Join([i \in 1..Len(record.bitbucketPRs) |->
                             NumberToString(record.bitbucketPRs[i].comment_count)], ";"), TRUE) >>
      ELSE <<>>)
  \o (IF Len(record.followUpQuestions) > 0
      THEN << Column("followUpQuestions",
                     Join([i \in 1..Len(record.followUpQuestions) |->
                             record.followUpQuestions[i].v], ";"), TRUE) >>
      ELSE <<>>)

RECURSIVE DoubleQuotes(_)
\* value.replace(/"/g, '""'), by halves
DoubleQuotes(s) ==
  IF Len(s) = 0 THEN ""
  ELSE IF Len(s) = 1 THEN (IF s = "\"" THEN "\"\"" ELSE s)
  ELSE DoubleQuotes(SubSeq(s, 1, Len(s) \div 2))
         \o DoubleQuotes(SubSeq(s, Len(s) \div 2 + 1, Len(s)))

\* lines 101-107: one value of a CSV row
CsvValue(col) ==
  IF col.isString /\ (includes(col.value, ",") \/ includes(col.value, "\"")
                        \/ includes(col.value, "\n"))
  THEN "\"" \o DoubleQuotes(col.value) \o "\""
  ELSE col.value

\* lines 93-109: the text written to the day's CSV file
CsvContent(existingData, flatRecord) ==
  LET needsHeader == existingData = "" \/ trim(existingData) = ""
      headers == Join([i \in 1..Len(flatRecord) |-> flatRecord[i].name], ",")
      values == Join([i \in 1..Len(flatRecord) |-> CsvValue(flatRecord[i])], ",")
  IN (IF needsHeader THEN headers \o "\n" ELSE existingData) \o values \o "\n"

\* lines 41-54: the day's records after the read of the day file, the new one added.
\* A failed read is caught and the day starts from an empty array.
DayDataAfterRead(data, standupRecord) ==
  (IF data.status = "data" THEN data.items ELSE <<>>) \o <<standupRecord>>

\* lines 82-94: the existing CSV text after the read of the day file
ExistingCsv(data) ==
  IF data.status = "data" THEN data.items[1] ELSE ""

----------------------------------------------------------------------------
(* standupHandler.js: processStandup, one request per r *)

RequiredFields == {"teamMemberName", "yesterday", "today", "blockers"}

\* body of a request: the fields given (a function on a subset of RequiredFields)
\* to strings (the type the API gives them)
\* kind "object": event.body is an object; "string": JSON text of it;
\* "malformed": a string JSON.parse rejects; "null": no body
Event(kind, body) == [kind |-> kind, body |-> body]

NoEvent == Event("none", <<>>)

\* !body[f]
Falsy(body, f) == f \notin DOMAIN body \/ body[f] = ""

\* faulty variant of MissingRequired: the blockers field is not looked at
MissingRequiredButBlockers(body) ==
  \E f \in RequiredFields \ {"blockers"} : Falsy(body, f)

\* line 20
MissingRequired(body) == \E f \in RequiredFields : Falsy(body, f)

\* line 16-17: parsing and destructuring throw
BodyThrows(ev) == ev.kind \in {"malformed", "null"}

NoStandup ==
  [teamMemberName |-> "", yesterday |-> "", today |-> "", blockers |-> "",
   timestamp |-> 0, id |-> ""]

Settled(status, value) == [status |-> status, value |-> value]

NoKey == Key("", "", "")

NoResponse == [statusCode |-> 0, followUpQuestions |-> <<>>, insights |-> <<>>]

IdleRequest ==
  [pc |-> "idle", event |-> NoEvent, standupData |-> NoStandup,
   previousUpdates |-> <<>>,
   jira |-> Settled("none", <<>>), bitbucket |-> Settled("none", <<>>),
   jiraFailed |-> FALSE, bitbucketFailed |-> FALSE,
   tasks |-> <<>>, prs |-> <<>>, ai |-> "none", followUpQuestions |-> <<>>,
   json |-> [pc |-> "none", fileName |-> NoKey, dayData |-> <<>>],
   csv |-> [pc |-> "none", fileName |-> NoKey, csvContent |-> ""],
   response |-> NoResponse]

\* lines 71-83
completeStandupRecord(q) ==
  [teamMemberName |-> q.standupData.teamMemberName,
   yesterday |-> q.standupData.yesterday,
   today |-> q.standupData.today,
   blockers |-> q.standupData.blockers,
   timestamp |-> q.standupData.timestamp,
   id |-> q.standupData.id,
   jiraTasks |-> q.tasks,
   bitbucketPRs |-> q.prs,
   followUpQuestions |-> q.followUpQuestions,
   previousUpdatesCount |-> Len(q.previousUpdates),
   analysisMetadata |->
     [tasksAnalyzed |-> Len(q.tasks), prsAnalyzed |-> Len(q.prs),
      questionsGenerated |-> Len(q.followUpQuestions),
      contextFromPreviousUpdates |-> Len(q.previousUpdates) > 0]]

\* what the issue tracker or the code-review service answered: ok and the items,
\* or a failure (an HTTP error, a timeout of the client, a missing configuration)
Backend(ok, items) == [ok |-> ok, items |-> items]

\* jiraService.getTeamMemberTasks: any failure is caught and answered with []
getTeamMemberTasks(backend) == IF backend.ok THEN backend.items ELSE <<>>

\* bitbucketService.getPRStatus: any failure is caught and answered with []
getPRStatus(backend) == IF backend.ok THEN backend.items ELSE <<>>

\* lines 52-58: the two results of Promise.allSettled
LookupResults(jiraTasks, bitbucketPRs) ==
  [tasks |-> IF jiraTasks.status = "fulfilled" THEN jiraTasks.value ELSE <<>>,
   prs |-> IF bitbucketPRs.status = "fulfilled" THEN bitbucketPRs.value ELSE <<>>]

Respond(q, statusCode) ==
  [q EXCEPT !.pc = "done",
            !.response = [statusCode |-> statusCode, followUpQuestions |-> <<>>,
                          insights |-> <<>>]]

InFlight == {r \in DOMAIN reqs : reqs[r].pc \notin {"idle", "done"}}

\* body.f of line 17: a field the body does not give is undefined. Both undefined
\* and '' are falsy, and line 20 lets neither pass.
Field(body, f) == IF f \in DOMAIN body THEN body[f] ELSE ""

(* lines 12-45: the request arrives; the body is parsed and validated *)
Receive(r, ev, maxInFlight) ==
  /\ reqs[r].pc = "idle"
  /\ IF r = 1 THEN TRUE ELSE reqs[r - 1].pc # "idle"
  /\ Cardinality(InFlight) < maxInFlight
  /\ reqs' = [reqs EXCEPT ![r] =
       IF BodyThrows(ev) THEN Respond([@ EXCEPT !.event = ev], 500)
       ELSE IF MissingRequired(ev.body) THEN Respond([@ EXCEPT !.event = ev], 400)
       ELSE [@ EXCEPT !.pc = "history", !.event = ev,
                      !.standupData = [teamMemberName |-> Field(ev.body, "teamMemberName"),
                                       yesterday |-> Field(ev.body, "yesterday"),
                                       today |-> Field(ev.body, "today"),
                                       blockers |-> Field(ev.body, "blockers"),
                                       timestamp |-> clock,
                                       id |-> uuid(r)]]]
  /\ UNCHANGED <<store, clock, probe>>

MemberKeys(fmt, member) == {k \in DOMAIN store : k.fmt = fmt /\ k.member = member}

(* lines 47-55: the history is read, then both lookups are issued *)
History(r, listOk, failed) ==
  /\ reqs[r].pc = "history"
  /\ failed \subseteq MemberKeys("json", reqs[r].standupData.teamMemberName)
  /\ reqs' = [reqs EXCEPT ![r] =
       [@ EXCEPT !.pc = "lookups",
                 !.previousUpdates =
                   getPreviousUpdates(store, reqs[r].standupData.teamMemberName,
                                      DefaultLimit, listOk, failed),
                 !.jira = Settled("pending", <<>>),
                 !.bitbucket = Settled("pending", <<>>)]]
  /\ UNCHANGED <<store, clock, probe>>

\* faulty variant of AfterLookups: fail-fast, a failed lookup aborts the submission
AfterLookupsFailFast(q) ==
  IF q.jira.status \in {"none", "pending"} \/ q.bitbucket.status \in {"none", "pending"}
  THEN q
  ELSE IF q.jiraFailed \/ q.bitbucketFailed THEN Respond(q, 500)
  ELSE LET res == LookupResults(q.jira, q.bitbucket)
       IN [q EXCEPT !.pc = "bedrock", !.tasks = res.tasks, !.prs = res.prs]

\* lines 57-60, once both lookups are settled: the model adapter is called
AfterLookups(q) ==
  IF q.jira.status \in {"none", "pending"} \/ q.bitbucket.status \in {"none", "pending"}
  THEN q
  ELSE LET res == LookupResults(q.jira, q.bitbucket)
       IN [q EXCEPT !.pc = "bedrock", !.tasks = res.tasks, !.prs = res.prs]

(* the task lookup settles *)
JiraSettles(r, backend) ==
  /\ reqs[r].pc = "lookups"
  /\ reqs[r].jira.status = "pending"
  /\ reqs' = [reqs EXCEPT ![r] =
       AfterLookups([@ EXCEPT !.jira = Settled("fulfilled", getTeamMemberTasks(backend)),
                              !.jiraFailed = ~backend.ok])]
  /\ UNCHANGED <<store, clock, probe>>

(* the review lookup settles *)
BitbucketSettles(r, backend) ==
  /\ reqs[r].pc = "lookups"
  /\ reqs[r].bitbucket.status = "pending"
  /\ reqs' = [reqs EXCEPT ![r] =
       AfterLookups([@ EXCEPT !.bitbucket = Settled("fulfilled", getPRStatus(backend)),
                              !.bitbucketFailed = ~backend.ok])]
  /\ UNCHANGED <<store, clock, probe>>

\* the file names saveAsJSON and saveAsCSV compute when they are called
DayFile(fmt, q) == Key(fmt, q.standupData.teamMemberName, DateString(clock))

IdFile(q) == Key("json", q.standupData.teamMemberName, q.standupData.id)

(* lines 62-86: the model adapter settles; the questions are generated, the *)
(* record is completed and saveStandupData starts both saves                *)
BedrockSettles(r, out) ==
  /\ reqs[r].pc = "bedrock"
  /\ LET q == reqs[r]
         res == generateFollowUpQuestions(q.standupData, q.previousUpdates, q.tasks, q.prs, out)
     IN reqs' = [reqs EXCEPT ![r] =
          IF res.threw THEN Respond([q EXCEPT !.ai = out.kind], 500)
          ELSE [q EXCEPT !.pc = "saving", !.ai = out.kind,
                         !.followUpQuestions = res.value,
                         !.json = [pc |-> IF STORAGE_TYPE \in {"json", "both"} THEN "get" ELSE "done",
                                   fileName |-> DayFile("json", q), dayData |-> <<>>],
                         !.csv = [pc |-> IF STORAGE_TYPE \in {"csv", "both"} THEN "get" ELSE "done",
                                  fileName |-> DayFile("csv", q), csvContent |-> ""]]]
  /\ UNCHANGED <<store, clock, probe>>

(* saveAsJSON, lines 41-54: the day file is read *)
JsonGet(r, readOk) ==
  /\ reqs[r].json.pc = "get"
  /\ LET q == reqs[r]
         data == getObjectFromS3(store, q.json.fileName,
                                 IF readOk THEN {} ELSE {q.json.fileName})
     IN reqs' = [reqs EXCEPT ![r].json =
          [@ EXCEPT !.pc = "putDay",
                    !.dayData = DayDataAfterRead(data, completeStandupRecord(q))]]
  /\ UNCHANGED <<store, clock, probe>>

(* saveAsJSON, line 57: the day file is written *)
JsonPutDay(r, writeOk) ==
  /\ reqs[r].json.pc = "putDay"
  /\ reqs' = [reqs EXCEPT ![r].json.pc = IF writeOk THEN "putId" ELSE "failed"]
  /\ store' = IF writeOk
              THEN putObjectToS3(store, reqs[r].json.fileName, "array",
                                 reqs[r].json.dayData, clock)
              ELSE store
  /\ UNCHANGED <<clock, probe>>

(* saveAsJSON, lines 60-61: the record's own file is written *)
JsonPutId(r, writeOk) ==
  /\ reqs[r].json.pc = "putId"
  /\ reqs' = [reqs EXCEPT ![r].json.pc = IF writeOk THEN "done" ELSE "failed"]
  /\ store' = IF writeOk
              THEN putObjectToS3(store, IdFile(reqs[r]), "object",
                                 <<completeStandupRecord(reqs[r])>>, clock)
              ELSE store
  /\ UNCHANGED <<clock, probe>>

(* saveAsCSV, lines 76-109: the day file is read and the new text is built *)
CsvGet(r, readOk) ==
  /\ reqs[r].csv.pc = "get"
  /\ LET q == reqs[r]
         data == getObjectFromS3(store, q.csv.fileName,
                                 IF readOk THEN {} ELSE {q.csv.fileName})
     IN reqs' = [reqs EXCEPT ![r].csv =
          [@ EXCEPT !.pc = "put",
                    !.csvContent = CsvContent(ExistingCsv(data),
                                              flattenStandupRecord(completeStandupRecord(q)))]]
  /\ UNCHANGED <<store, clock, probe>>

(* saveAsCSV, line 112: the day file is written *)
CsvPut(r, writeOk) ==
  /\ reqs[r].csv.pc = "put"
  /\ reqs' = [reqs EXCEPT ![r].csv.pc = IF writeOk THEN "done" ELSE "failed"]
  /\ store' = IF writeOk
              THEN putObjectToS3(store, reqs[r].csv.fileName, "csv",
                                 <<reqs[r].csv.csvContent>>, clock)
              ELSE store
  /\ UNCHANGED <<clock, probe>>

\* Promise.all of saveStandupData (line 30) has settled: rejected, or fulfilled
SaveRejected(q) == q.json.pc = "failed" \/ q.csv.pc = "failed"

\* faulty variant of SaveFulfilled: the CSV save is not awaited
SaveFulfilledJsonOnly(q) == q.json.pc = "done"

SaveFulfilled(q) == q.json.pc = "done" /\ q.csv.pc = "done"

(* lines 86-138: the save settles and the response is returned *)
Answer(r) ==
  /\ reqs[r].pc = "saving"
  /\ SaveRejected(reqs[r]) \/ SaveFulfilled(reqs[r])
  /\ reqs' = [reqs EXCEPT ![r] =
       IF SaveRejected(reqs[r]) THEN Respond(reqs[r], 500)
       ELSE [@ EXCEPT !.pc = "done",
                      !.response =
                        [statusCode |-> 200,
                         followUpQuestions |-> reqs[r].followUpQuestions,
                         insights |-> generateInsights(completeStandupRecord(reqs[r]),
                                                       reqs[r].previousUpdates)]]]
  /\ UNCHANGED <<store, clock, probe>>

(* time passes *)
Tick ==
  /\ clock < MaxClock
  /\ clock' = clock + 1
  /\ UNCHANGED <<store, reqs, probe>>

----------------------------------------------------------------------------
(* Inputs *)

ValidBody(member, blockers) ==
  [teamMemberName |-> member, yesterday |-> "Fixed the login bug",
   today |-> "Write the tests", blockers |-> blockers]

\* the body without the field f
Without(body, f) == [g \in DOMAIN body \ {f} |-> body[g]]

\* the body with the field f empty
Emptied(body, f) == [body EXCEPT ![f] = ""]

InvalidBodies(member, blockers) ==
  {Without(ValidBody(member, blockers), f) : f \in RequiredFields}
    \cup {Emptied(ValidBody(member, blockers), f) : f \in RequiredFields}

TaskList(n) == [i \in 1..n |-> [key |-> "PROJ-" \o NumberToString(i)]]

PullRequest(i, state, comments) ==
  [title |-> "PR " \o NumberToString(i), state |-> state, comment_count |-> comments]

OpenPRList(n) == [i \in 1..n |-> PullRequest(i, "OPEN", 0)]

BedrockThrows == BedrockResult("throws", FALSE, FALSE, <<>>, "")

BedrockUndecodable == BedrockResult("undecodable", FALSE, FALSE, <<>>, "")

BedrockNoText == BedrockResult("no_text", FALSE, FALSE, <<>>, "")

\* the text is JSON for an array of these items
BedrockArray(items) == BedrockResult("text", TRUE, TRUE, items, "")

\* the text is JSON for a value that is no array
BedrockNonArray == BedrockResult("text", TRUE, FALSE, <<>>, "")

\* the text is not JSON
BedrockText(text) == BedrockResult("text", FALSE, FALSE, <<>>, text)

ModelQuestion(i) == Str("Model question " \o NumberToString(i) \o "?")

(* A scenario: the inputs the environment may give.                        *)
(*   events       the requests that may arrive                             *)
(*   jira, bitbucket, bedrock   what each backend may answer               *)
(*   listings     whether a listing of the store may fail (FALSE) or not   *)
(*   reads, writes   whether a read / a write of the store may fail        *)
(*   maxInFlight  how many requests may be handled at the same time        *)
Scenario(events, jira, bitbucket, bedrock, listings, reads, writes, maxInFlight) ==
  [events |-> events, jira |-> jira, bitbucket |-> bitbucket, bedrock |-> bedrock,
   listings |-> listings, reads |-> reads, writes |-> writes,
   maxInFlight |-> maxInFlight]

Members == {"alice", "bob"}

BlockerTexts == {"None", "Waiting on database access"}

GeneralEvents ==
  {Event("object", ValidBody(m, b)) : m \in Members, b \in BlockerTexts}
    \cup {Event("object", body) : body \in InvalidBodies("alice", "None")}
    \cup {Event("string", ValidBody("alice", "None")),
          Event("string", Without(ValidBody("alice", "None"), "today")),
          Event("malformed", <<>>), Event("null", <<>>)}

\* one request, every kind of input
General ==
  Scenario(GeneralEvents,
           {Backend(FALSE, <<>>), Backend(TRUE, TaskList(3)), Backend(TRUE, TaskList(6))},
           {Backend(FALSE, <<>>), Backend(TRUE, OpenPRList(3))},
           {BedrockThrows, BedrockUndecodable,
            BedrockArray(<<ModelQuestion(1), ModelQuestion(2)>>)},
           BOOLEAN, BOOLEAN, BOOLEAN, 1)

\* the same member submits again and again, one request after the other
Sequential ==
  Scenario({Event("object", ValidBody("alice", "Waiting on database access"))},
           {Backend(TRUE, TaskList(1))}, {Backend(TRUE, OpenPRList(1))},
           {BedrockThrows}, {TRUE}, BOOLEAN, BOOLEAN, 1)

\* the same member submits twice at the same time; the store never fails
Concurrent ==
  Scenario({Event("object", ValidBody("alice", "None"))},
           {Backend(TRUE, TaskList(1))}, {Backend(TRUE, OpenPRList(1))},
           {BedrockThrows}, {TRUE}, {TRUE}, {TRUE}, MaxReq)

\* one request; the model adapter may answer or not
Live ==
  Scenario({Event("object", ValidBody(m, "None")) : m \in Members},
           {Backend(FALSE, <<>>), Backend(TRUE, TaskList(1))},
           {Backend(FALSE, <<>>), Backend(TRUE, OpenPRList(1))},
           {BedrockThrows, BedrockArray(<<ModelQuestion(1)>>)},
           {TRUE}, BOOLEAN, BOOLEAN, 1)

----------------------------------------------------------------------------
(* The state machine *)

NoProbe == [op |-> "none"]

Requests(n) == [r \in 1..n |-> IdleRequest]

InitWith(n) ==
  /\ store = <<>>
  /\ clock = 0
  /\ reqs = Requests(n)
  /\ probe = NoProbe

\* the reads of day files that may fail while the history of request r is read
FailedReads(sc, r) ==
  IF FALSE \in sc.reads
  THEN SUBSET MemberKeys("json", reqs[r].standupData.teamMemberName)
  ELSE {{}}

\* a request arrives
Arrive(sc) ==
  \E r \in DOMAIN reqs, ev \in sc.events : Receive(r, ev, sc.maxInFlight)

\* the store answers a call (the S3 client settles)
Storage(sc) ==
  \/ \E r \in DOMAIN reqs, listOk \in sc.listings :
       \E failed \in FailedReads(sc, r) : History(r, listOk, failed)
  \/ \E r \in DOMAIN reqs, ok \in sc.reads : JsonGet(r, ok)
  \/ \E r \in DOMAIN reqs, ok \in sc.writes : JsonPutDay(r, ok)
  \/ \E r \in DOMAIN reqs, ok \in sc.writes : JsonPutId(r, ok)
  \/ \E r \in DOMAIN reqs, ok \in sc.reads : CsvGet(r, ok)
  \/ \E r \in DOMAIN reqs, ok \in sc.writes : CsvPut(r, ok)

\* the issue tracker or the code-review service answers, or its client times out
\* (axios timeout of 10000 ms in both services)
Lookups(sc) ==
  \/ \E r \in DOMAIN reqs, backend \in sc.jira : JiraSettles(r, backend)
  \/ \E r \in DOMAIN reqs, backend \in sc.bitbucket : BitbucketSettles(r, backend)

\* the model adapter answers (bedrockClient.send settles)
Model(sc) ==
  \E r \in DOMAIN reqs, out \in sc.bedrock : BedrockSettles(r, out)

\* the handler goes on once the save has settled
Handler == \E r \in DOMAIN reqs : Answer(r)

Processing(sc) == Storage(sc) \/ Lookups(sc) \/ Model(sc) \/ Handler \/ Tick

Step(sc) == Arrive(sc) \/ Processing(sc)

(* One request, every kind of input *)
Init == InitWith(1)

Next == Step(General)

Spec == Init /\ [][Next]_vars

(* MaxReq requests of one member, one after the other *)
SeqInit == InitWith(MaxReq)

SeqNext == Step(Sequential)

SeqSpec == SeqInit /\ [][SeqNext]_vars

(* MaxReq requests of one member at the same time *)
ConcInit == InitWith(MaxReq)

ConcNext == Step(Concurrent)

ConcSpec == ConcInit /\ [][ConcNext]_vars

(* One request under fair scheduling: the event loop runs every callback that *)
(* is ready, and the store and both lookups settle (the lookups by their      *)
(* client's timeout at the latest). Nothing makes bedrockClient.send settle.  *)
LiveInit == InitWith(1)

LiveNext == Step(Live)

LiveSpec ==
  /\ LiveInit /\ [][LiveNext]_vars
  /\ WF_vars(Storage(Live))
  /\ WF_vars(Lookups(Live))
  /\ WF_vars(Handler)

(* The team: each member submits one record, then the metrics are asked for *)
TeamMembers == <<"alice", "bob", "carol", "dave", "erin">>

Team ==
  Scenario({}, {Backend(TRUE, TaskList(3))}, {Backend(TRUE, OpenPRList(1))},
           {BedrockThrows}, {TRUE}, {TRUE}, {TRUE}, 1)

\* nothing is being handled and nothing is being written
Quiescent ==
  \A r \in DOMAIN reqs :
    /\ reqs[r].pc \in {"idle", "done"}
    /\ reqs[r].json.pc \in {"none", "done", "failed"}
    /\ reqs[r].csv.pc \in {"none", "done", "failed"}

TeamArrive ==
  \E r \in DOMAIN reqs :
    Receive(r, Event("object", ValidBody(TeamMembers[r], "None")), Team.maxInFlight)

(* dataHandler.getTeamMetrics, line 96: the metrics of all time are asked for *)
MetricsQuery ==
  /\ Quiescent
  /\ probe' = [op |-> "metrics",
               answered |-> Cardinality({r \in DOMAIN reqs : reqs[r].response.statusCode = 200}),
               result |-> getTeamMetrics(store, "", "", TRUE, {})]
  /\ UNCHANGED <<store, clock, reqs>>

TeamInit == InitWith(Len(TeamMembers))

TeamNext == TeamArrive \/ Processing(Team) \/ MetricsQuery

TeamSpec == TeamInit /\ [][TeamNext]_vars

(* The question generator alone: one call on inputs of every kind *)
QuestionBlockers == {"None", "none", "   ", "Waiting on database access"}

QuestionTasks == {TaskList(0), TaskList(6)}

QuestionPRs == {OpenPRList(0), OpenPRList(3)}

Num(s) == [t |-> "number", v |-> s]

QuestionOutcomes ==
  {BedrockThrows, BedrockUndecodable, BedrockNoText, BedrockNonArray}
    \cup {BedrockArray([i \in 1..n |-> ModelQuestion(i)]) : n \in 0..(MaxQuestions + 1)}
    \cup {BedrockArray(<<Num("1"), Num("2")>>), BedrockArray(<<Str("")>>),
          BedrockArray(<<ModelQuestion(1), Str("")>>)}
    \cup {BedrockText("Here are some questions:\n1. What is blocking the release?\n- Who can help with the review?"),
          BedrockText("I have no questions."),
          BedrockText("")}

QuestionInit ==
  /\ store = <<>>
  /\ clock = 0
  /\ reqs = Requests(0)
  /\ \E b \in QuestionBlockers, tasks \in QuestionTasks, prs \in QuestionPRs,
        out \in QuestionOutcomes :
       probe = [op |-> "ask", standupData |-> [NoStandup EXCEPT !.teamMemberName = "alice",
                                                               !.blockers = b],
                tasks |-> tasks, prs |-> prs, out |-> out, result |-> Thrown]

(* aiService.generateFollowUpQuestions is called and settles *)
Ask ==
  /\ probe.op = "ask"
  /\ probe' = [probe EXCEPT !.op = "asked",
                            !.result = generateFollowUpQuestions(probe.standupData, <<>>,
                                                                 probe.tasks, probe.prs,
                                                                 probe.out)]
  /\ UNCHANGED <<store, clock, reqs>>

QuestionNext == Ask

QuestionSpec == QuestionInit /\ [][QuestionNext]_vars

----------------------------------------------------------------------------
(* The store under the metrics queries: whole submissions one after the    *)
(* other, each one handled to its end before the next arrives, and between *)
(* two submissions the metrics asked for over a window, once and again     *)

MaxSubmissions == 6

\* who sends the r-th submission
SubmissionMember(r) == TeamMembers[((r - 1) % 3) + 1]

\* the blockers the r-th submission may name
SubmissionBlockers(r) ==
  IF r = 1 THEN {"Waiting on database access", "None"}
  ELSE IF r = 2 THEN {"404", "Waiting on database access"}
  ELSE IF r = 3 THEN {"VPN is down"}
  ELSE IF r = 4 THEN {"Flaky integration tests"}
  ELSE IF r = 5 THEN {"Code review pending", "VPN is down"}
  ELSE IF r = 6 THEN {"No staging environment"}
  ELSE {"Licence expired"}

(* standupHandler.processStandup, lines 12-138, from the arrival of the    *)
(* request r to its answer 200: nothing fails, the lookups give tasks and  *)
(* prs, the model adapter is down and the fallback questions are used       *)
\* a submission handled from its arrival to its answer, every write succeeding;
\* `reads` is what the store does while getPreviousUpdates reads the history
SubmittedAfter(st, t, r, body, tasks, prs, reads) ==
  LET standupData == [teamMemberName |-> Field(body, "teamMemberName"),
                      yesterday |-> Field(body, "yesterday"),
                      today |-> Field(body, "today"),
                      blockers |-> Field(body, "blockers"),
                      timestamp |-> t,
                      id |-> uuid(r)]
      previousUpdates == getPreviousUpdates(st, standupData.teamMemberName, DefaultLimit,
                                            reads.listOk, reads.failed)
      q == [IdleRequest EXCEPT
              !.event = Event("object", body),
              !.standupData = standupData,
              !.previousUpdates = previousUpdates,
              !.tasks = tasks,
              !.prs = prs,
              !.ai = BedrockThrows.kind,
              !.followUpQuestions =
                generateFollowUpQuestions(standupData, previousUpdates, tasks, prs,
                                          BedrockThrows).value]
      record == completeStandupRecord(q)
      dayJson == Key("json", standupData.teamMemberName, DateString(t))
      dayCsv == Key("csv", standupData.teamMemberName, DateString(t))
      withDay == putObjectToS3(st, dayJson, "array",
                               DayDataAfterRead(getObjectFromS3(st, dayJson, {}), record), t)
      withId == putObjectToS3(withDay, IdFile(q), "object", <<record>>, t)
      withCsv == putObjectToS3(withId, dayCsv, "csv",
                               <<CsvContent(ExistingCsv(getObjectFromS3(st, dayCsv, {})),
                                            flattenStandupRecord(record))>>, t)
  IN [store |-> withCsv,
      request |-> [q EXCEPT !.pc = "done",
                            !.json = [pc |-> "done", fileName |-> dayJson,
                                      dayData |-> withDay[dayJson].items],
                            !.csv = [pc |-> "done", fileName |-> dayCsv,
                                     csvContent |-> withCsv[dayCsv].items[1]],
                            !.response =
                              [statusCode |-> 200,
                               followUpQuestions |-> q.followUpQuestions,
                               insights |-> generateInsights(record, previousUpdates)]]]

\* the same, the store answering every read of the history
Submitted(st, t, r, body, tasks, prs) ==
  SubmittedAfter(st, t, r, body, tasks, prs, [listOk |-> TRUE, failed |-> {}])

Submit ==
  \E r \in DOMAIN reqs : \E blockers \in SubmissionBlockers(r) :
    /\ reqs[r].pc = "idle"
    /\ IF r = 1 THEN TRUE ELSE reqs[r - 1].pc = "done"
    /\ LET after == Submitted(store, clock, r, ValidBody(SubmissionMember(r), blockers),
                              TaskList(r % 4), OpenPRList(r % 3))
       IN /\ store' = after.store
          /\ reqs' = [reqs EXCEPT ![r] = after.request]
    /\ probe' = NoProbe
    /\ UNCHANGED clock

\* the startDate and endDate a query may carry: none, a day, an instant
Windows ==
  {<<"", "">>, <<DateString(TicksPerDay), "">>, <<"", toISOString(0)>>,
   <<toISOString(1), toISOString(1)>>,
   <<toISOString(MaxClock), toISOString(0)>>}

JsonKeys(st) == {k \in DOMAIN st : k.fmt = "json"}

\* what the store does during one query: every call succeeds, the listing
\* fails, or the read of one object fails
ReadFaults(st) ==
  {[listOk |-> TRUE, failed |-> {}], [listOk |-> FALSE, failed |-> {}]}
    \cup {[listOk |-> TRUE, failed |-> {k}] :
            k \in JsonKeys(st) \cap {Key("json", SubmissionMember(1), DateString(0))}}

Faultless(reads) == reads.listOk /\ reads.failed = {}

(* dataHandler.getTeamMetrics, lines 87-96: the metrics of a window are asked for *)
WindowQuery ==
  \E w \in Windows, reads \in ReadFaults(store) :
    /\ probe.op = "none"
    /\ probe' = [op |-> "window", startDate |-> w[1], endDate |-> w[2],
                 reads |-> reads,
                 result |-> getTeamMetrics(store, w[1], w[2], reads.listOk, reads.failed)]
    /\ UNCHANGED <<store, clock, reqs>>

(* the same query once more, no submission in between *)
RepeatQuery ==
  \E reads \in ReadFaults(store) :
    /\ probe.op = "window"
    /\ probe' = [op |-> "repeat", startDate |-> probe.startDate, endDate |-> probe.endDate,
                 reads |-> probe.reads, result |-> probe.result,
                 readsAgain |-> reads,
                 resultAgain |-> getTeamMetrics(store, probe.startDate, probe.endDate,
                                                reads.listOk, reads.failed)]
    /\ UNCHANGED <<store, clock, reqs>>

MetricsInit == InitWith(MaxSubmissions)

MetricsNext == Submit \/ Tick \/ WindowQuery \/ RepeatQuery

MetricsSpec == MetricsInit /\ [][MetricsNext]_vars

\* the records of the store a query without faults reads, with repetitions
RecordsRead(st) == ReadAll(st, listObjectsFromS3(st, "json", "", TRUE), {})

----------------------------------------------------------------------------
(* The trend analysis alone: one call on the updates of a member, newest   *)
(* first as getPreviousUpdates returns them                                *)

MaxTrendRecords == 7

\* the task counts of the records are 1 or 2 times the scale
TrendScales == {1, 7}

ReviewProfiles == {"flat", "rising", "falling"}

\* the number of reviews of the i-th oldest of n records
ReviewCount(profile, i, n) ==
  IF profile = "rising" /\ i > n - 3 THEN 3
  ELSE IF profile = "falling" /\ i <= 3 THEN 3
  ELSE 1

\* a stored record of the member with the given numbers of tasks and reviews
HistoryRecord(t, nTasks, nPRs, blockers) ==
  [teamMemberName |-> "alice", blockers |-> blockers, timestamp |-> t,
   jiraTasks |-> TaskList(nTasks), bitbucketPRs |-> OpenPRList(nPRs)]

TrendInit ==
  /\ store = <<>>
  /\ clock = 0
  /\ reqs = Requests(0)
  /\ \E n \in 0..MaxTrendRecords, scale \in TrendScales, profile \in ReviewProfiles :
       \E tasks \in [1..n -> {1, 2}] :
         probe = [op |-> "trend",
                  updates |-> [i \in 1..n |->
                                 HistoryRecord(n + 1 - i, scale * tasks[n + 1 - i],
                                               ReviewCount(profile, n + 1 - i, n), "None")],
                  result |-> NoTrend]

(* dataHandler.getTeamMemberSummary, line 182: the trends are analyzed *)
Analyze ==
  /\ probe.op = "trend"
  /\ probe' = [probe EXCEPT !.op = "analyzed",
                            !.result = analyzeMemberTrends(probe.updates)]
  /\ UNCHANGED <<store, clock, reqs>>

TrendNext == Analyze

TrendSpec == TrendInit /\ [][TrendNext]_vars

----------------------------------------------------------------------------
(* The productivity of a member alone: one call on a history *)

MaxHistory == 3

HistoryTasks == 0..2

HistoryPRs == 0..1

ProductivityInit ==
  /\ store = <<>>
  /\ clock = 0
  /\ reqs = Requests(0)
  /\ \E n \in 0..MaxHistory :
       \E tasks \in [1..n -> HistoryTasks], prs \in [1..n -> HistoryPRs],
          blockers \in [1..n -> BlockerTexts] :
         probe = [op |-> "productivity",
                  history |-> [i \in 1..n |->
                                 HistoryRecord(n + 1 - i, tasks[i], prs[i], blockers[i])],
                  result |-> [teamMember |-> "", productivity |-> "", metrics |-> <<>>]]

(* dataHandler.getProductivityMetrics, line 246: the productivity of a member *)
Score ==
  /\ probe.op = "productivity"
  /\ probe' = [probe EXCEPT !.op = "scored",
                            !.result = calculateIndividualProductivity("alice", probe.history)]
  /\ UNCHANGED <<store, clock, reqs>>

ProductivityNext == Score

ProductivitySpec == ProductivityInit /\ [][ProductivityNext]_vars

----------------------------------------------------------------------------
(* The summary of a member alone: one call on the recent updates that      *)
(* getPreviousUpdates gives for the days asked for, at most min(days, 50)  *)

MaxSummaryRecords == 10

SummaryDays == (1..12) \cup {DefaultSummaryDays, 2 * DefaultSummaryDays}

SummaryInit ==
  /\ store = <<>>
  /\ clock = 0
  /\ reqs = Requests(0)
  /\ \E days \in SummaryDays :
       \E n \in 0..Min(Min(days, MaxSummaryUpdates), MaxSummaryRecords) :
         probe = [op |-> "summary", days |-> days,
                  updates |-> [i \in 1..n |-> HistoryRecord(n + 1 - i, i % 3, i % 2, "None")],
                  result |-> <<>>]

(* dataHandler.getTeamMemberSummary, lines 143-161: the summary is computed *)
Summarize ==
  /\ probe.op = "summary"
  /\ probe' = [probe EXCEPT !.op = "summarized",
                            !.result = MemberSummary(probe.updates, probe.days)]
  /\ UNCHANGED <<store, clock, reqs>>

SummaryNext == Summarize

SummarySpec == SummaryInit /\ [][SummaryNext]_vars

----------------------------------------------------------------------------
(* The insights of the team alone: one answer of the metrics handler on    *)
(* metrics as storageService.getTeamMetrics returns them                   *)

\* storageService.getTeamMetrics, lines 349-356, for the totals given
MetricsOfTotals(totalStandups, activeMembers, totalTasks, totalPRs, topBlockers) ==
  [totalStandups |-> totalStandups,
   activeMembers |-> activeMembers,
   averageTasksPerMember |->
     IF activeMembers > 0 THEN RoundedAverage(totalTasks, activeMembers) ELSE 0,
   averagePRsPerMember |->
     IF activeMembers > 0 THEN RoundedAverage(totalPRs, activeMembers) ELSE 0,
   topBlockers |-> topBlockers,
   memberStats |-> <<>>]

BlockerCount(blocker, count) == [blocker |-> blocker, count |-> count]

InsightBlockers ==
  {<<>>,
   <<BlockerCount("waiting on database access", 3)>>,
   <<BlockerCount("waiting on database access", 4)>>,
   <<BlockerCount("waiting on database access", 4), BlockerCount("vpn is down", 2),
     BlockerCount("404", 1)>>,
   <<BlockerCount("404", 3), BlockerCount("waiting on database access", 3),
     BlockerCount("vpn is down", 3)>>}

\* the standups, tasks and reviews per member around the thresholds of the rules
InsightStandupsPerMember == {1, 5, 20, 21}

InsightTasksPerMember == {6, 8}

InsightPRsPerMember == {3, 5}

InsightMembers == {MinActiveMembers - 1, MinActiveMembers}

\* the top blockers that so many standups can have named
BlockersWithin(totalStandups) ==
  {b \in InsightBlockers : SumTo([i \in 1..Len(b) |-> b[i].count], Len(b)) <= totalStandups}

InsightMetrics ==
  {EmptyMetrics, FailedMetrics("Access Denied"), MetricsOfTotals(0, 0, 0, 0, <<>>)}
    \cup UNION {{MetricsOfTotals(m * s, m, m * t + extraTask, m * p + extraPR, top) :
                   t \in InsightTasksPerMember, extraTask \in {0, 1},
                   p \in InsightPRsPerMember, extraPR \in {0, 1},
                   top \in BlockersWithin(m * s)} :
                 m \in InsightMembers, s \in InsightStandupsPerMember}

InsightInit ==
  /\ store = <<>>
  /\ clock = 0
  /\ reqs = Requests(0)
  /\ \E metrics \in InsightMetrics :
       probe = [op |-> "advise", metrics |-> metrics,
                result |-> [statusCode |-> 0, insights |-> <<>>, recommendations |-> <<>>]]

(* dataHandler.getTeamMetrics, lines 98-117: the insights and the          *)
(* recommendations are added to the metrics and the answer is returned     *)
Advise ==
  /\ probe.op = "advise"
  /\ probe' = [probe EXCEPT !.op = "advised",
                            !.result = [statusCode |-> 200,
                                        insights |-> generateTeamInsights(probe.metrics),
                                        recommendations |->
                                          generateTeamRecommendations(probe.metrics)]]
  /\ UNCHANGED <<store, clock, reqs>>

InsightNext == Advise

InsightSpec == InsightInit /\ [][InsightNext]_vars

----------------------------------------------------------------------------
(* Properties *)

\* the request was answered with this status code
Answered(q, statusCode) == q.pc = "done" /\ q.response.statusCode = statusCode

\* the record of the request is in the per-day JSON file of its member
InDayFile(q) ==
  /\ q.json.fileName \in DOMAIN store
  /\ \E i \in 1..Len(store[q.json.fileName].items) :
       store[q.json.fileName].items[i].id = q.standupData.id

\* the record of the request is in the file named after its id
InIdFile(q) ==
  /\ IdFile(q) \in DOMAIN store
  /\ store[IdFile(q)].items = <<completeStandupRecord(q)>>

\* the row of the request is in the per-day CSV file of its member
InCsvFile(q) ==
  /\ q.csv.fileName \in DOMAIN store
  /\ includes(store[q.csv.fileName].items[1], q.standupData.id)

AdapterUnavailable(q) == q.ai \in {"throws", "undecodable"}

WriteFailed(q) == q.json.pc = "failed" \/ q.csv.pc = "failed"

\* C1: when the call of the model adapter fails or its body cannot be decoded,
\* generateFollowUpQuestions returns the fallback questions and the handler goes
\* on to save; a 500 answer comes only from an unreadable request body or from a
\* failed write of the store, never from the model adapter.
AdapterFailureNeverPropagates ==
  \A r \in DOMAIN reqs :
    LET q == reqs[r]
    IN /\ AdapterUnavailable(q) =>
            /\ q.pc \in {"saving", "done"}
            /\ q.json.pc # "none" /\ q.csv.pc # "none"
            /\ q.followUpQuestions =
                 generateFallbackQuestions(q.standupData, q.tasks, q.prs)
       /\ Answered(q, 500) => BodyThrows(q.event) \/ WriteFailed(q)

AdapterFailureAnsweredWithFallback ==
  \E r \in DOMAIN reqs :
    /\ reqs[r].ai = "throws"
    /\ Answered(reqs[r], 200)
    /\ reqs[r].response.followUpQuestions =
         generateFallbackQuestions(reqs[r].standupData, reqs[r].tasks, reqs[r].prs)

\* C2: for every outcome of the model adapter, generateFollowUpQuestions returns
\* between 1 and 5 entries, each of them a non-empty string.
QuestionsAreOneToFiveStrings ==
  probe.op = "asked" =>
    /\ ~probe.result.threw
    /\ Len(probe.result.value) \in 1..MaxQuestions
    /\ \A i \in 1..Len(probe.result.value) :
         probe.result.value[i].t = "string" /\ probe.result.value[i].v # ""

\* C3: a failed lookup leaves its own branch empty and nothing else: the result
\* of the other lookup is used, the model adapter is called, and unless a write
\* of the store fails the record is saved and the answer is a success.
LookupFailureDegradesOnlyItsBranch ==
  \A r \in DOMAIN reqs :
    LET q == reqs[r]
    IN q.jira.status = "fulfilled" /\ q.bitbucket.status = "fulfilled" =>
         /\ q.pc \in {"bedrock", "saving", "done"}
         /\ q.tasks = (IF q.jiraFailed THEN <<>> ELSE q.jira.value)
         /\ q.prs = (IF q.bitbucketFailed THEN <<>> ELSE q.bitbucket.value)
         /\ q.pc = "done" =>
              \/ WriteFailed(q)
              \/ /\ Answered(q, 200)
                 /\ Len(q.response.followUpQuestions) > 0
                 /\ InDayFile(q)
                 /\ store[IdFile(q)].items[1].jiraTasks = q.tasks
                 /\ store[IdFile(q)].items[1].bitbucketPRs = q.prs

TaskLookupFailedReviewsKept ==
  \E r \in DOMAIN reqs :
    /\ reqs[r].jiraFailed /\ ~reqs[r].bitbucketFailed
    /\ Answered(reqs[r], 200)
    /\ reqs[r].tasks = <<>>
    /\ Len(reqs[r].prs) > 0
    /\ InDayFile(reqs[r])

\* C4: a request whose save had a failed write is answered with an error; a
\* success is answered only when the day file, the file of the record and the
\* CSV file have all been written.
WriteFailureIsAnError ==
  \A r \in DOMAIN reqs :
    LET q == reqs[r]
    IN /\ q.pc = "done" /\ WriteFailed(q) => q.response.statusCode = 500
       /\ q.response.statusCode = 200 =>
            /\ q.json.pc = "done" /\ q.csv.pc = "done"
            /\ InDayFile(q) /\ InIdFile(q) /\ InCsvFile(q)

CsvWriteFailedAfterJsonSaved ==
  \E r \in DOMAIN reqs :
    /\ Answered(reqs[r], 500)
    /\ reqs[r].csv.pc = "failed"
    /\ reqs[r].json.pc = "done"
    /\ InDayFile(reqs[r])

AnsweredRecordsStay ==
  \A r \in DOMAIN reqs : Answered(reqs[r], 200) => InDayFile(reqs[r])

\* C7: when two requests of the same member on the same day have both been
\* answered with a success and nothing is being written any more, the per-day
\* file holds both records.
NoLostUpdate ==
  \A r1, r2 \in DOMAIN reqs :
    /\ r1 # r2
    /\ Answered(reqs[r1], 200) /\ Answered(reqs[r2], 200)
    /\ reqs[r1].json.fileName = reqs[r2].json.fileName
    /\ Quiescent
    => InDayFile(reqs[r1]) /\ InDayFile(reqs[r2])

\* C8: once the model adapter has been called, the request is eventually
\* answered, whether the adapter answers or not.
ModelCallIsBounded == (reqs[1].pc = "bedrock") ~> (reqs[1].pc = "done")

\* C9: once every member of the team has submitted one record with 3 linked
\* tasks and 1 linked review into the empty store, and each was answered with a
\* success, the team metrics report as many active members as the team has,
\* 3.0 tasks and 1.0 reviews per member.
TeamMetricsOfOneRecordEach ==
  probe.op = "metrics" /\ probe.answered = Len(TeamMembers) =>
    /\ probe.result.activeMembers = Len(TeamMembers)
    /\ probe.result.averageTasksPerMember = 100 * Len(TaskList(3))
    /\ probe.result.averagePRsPerMember = 100 * Len(OpenPRList(1))

\* the case of C10: no history, blockers "None", the model adapter unavailable
FirstSubmissionWithoutBlockers(q) ==
  /\ Answered(q, 200)
  /\ q.standupData.blockers = "None"
  /\ q.previousUpdates = <<>>
  /\ AdapterUnavailable(q)

NoBlockerSignals(q) ==
  /\ getTeamMemberSummary(store, q.standupData.teamMemberName, DefaultSummaryDays,
                          TRUE, {}).blockerFrequency = 0
  /\ \A i \in 1..Len(q.response.insights) :
       q.response.insights[i].type # "recurring_blocker"

\* C10, as stated: a first submission with blockers "None" while the model
\* adapter is unavailable gives a blocker frequency of 0, no recurring-blocker
\* insight and exactly the 3 default questions.
FirstSubmissionGetsDefaultQuestions ==
  \A r \in DOMAIN reqs :
    FirstSubmissionWithoutBlockers(reqs[r]) =>
      /\ NoBlockerSignals(reqs[r])
      /\ reqs[r].response.followUpQuestions = DefaultQuestions

\* C10, amended: the same, for a member with at most 5 linked tasks and at most
\* 2 open reviews.
FirstSubmissionFewTasksGetsDefaultQuestions ==
  \A r \in DOMAIN reqs :
    /\ FirstSubmissionWithoutBlockers(reqs[r])
    /\ Len(reqs[r].tasks) <= FallbackTaskThreshold
    /\ Len(openPRsOf(reqs[r].prs)) <= FallbackOpenPRThreshold
    => /\ NoBlockerSignals(reqs[r])
       /\ reqs[r].response.followUpQuestions = DefaultQuestions

FirstSubmissionAnsweredWithDefaults ==
  \E r \in DOMAIN reqs :
    /\ FirstSubmissionWithoutBlockers(reqs[r])
    /\ Len(reqs[r].tasks) = 3
    /\ reqs[r].response.followUpQuestions = DefaultQuestions
    /\ NoBlockerSignals(reqs[r])

\* the metrics the queries of the probe have returned, the first and the repeated one
MetricsReturned ==
  IF probe.op = "window" THEN {probe.result}
  ELSE IF probe.op = "repeat" THEN {probe.result, probe.resultAgain}
  ELSE {}

\* memberStats of the metrics; the early return of lines 280-288 has none
MemberStatsOf(metrics) ==
  IF "memberStats" \in DOMAIN metrics THEN metrics.memberStats ELSE <<>>

WithinWindow(t, startDate, endDate) ==
  /\ startDate = "" \/ toISOString(t) = startDate \/ StringLess(startDate, toISOString(t))
  /\ endDate = "" \/ toISOString(t) = endDate \/ StringLess(toISOString(t), endDate)

\* the store holds no record whose timestamp is in the window of the probe
NoRecordInWindow ==
  \A i \in 1..Len(RecordsRead(store)) :
    ~WithinWindow(RecordsRead(store)[i].timestamp, probe.startDate, probe.endDate)

\* C12: when the store is empty or holds no record in the window asked for,
\* getTeamMetrics returns totalStandups 0, activeMembers 0, both averages 0 and
\* no top blocker, and reports no error.
EmptyRecordSetGivesZeroMetrics ==
  (probe.op \in {"window", "repeat"} /\ NoRecordInWindow) =>
    \A metrics \in MetricsReturned :
      /\ metrics.totalStandups = 0
      /\ metrics.activeMembers = 0
      /\ metrics.averageTasksPerMember = 0
      /\ metrics.averagePRsPerMember = 0
      /\ metrics.topBlockers = <<>>
      /\ "error" \notin DOMAIN metrics

\* records are stored, all of them after the end of the window asked for
WindowBeforeAllRecords ==
  /\ probe.op = "window"
  /\ Faultless(probe.reads)
  /\ probe.endDate # ""
  /\ Len(RecordsRead(store)) > 0
  /\ NoRecordInWindow
  /\ probe.result.totalStandups = 0

RecordsAggregated(reads) ==
  LET records == ReadAll(store, listObjectsFromS3(store, "json", "", reads.listOk), reads.failed)
  IN SelectSeq(records,
               LAMBDA s : WithinWindow(s.timestamp, probe.startDate, probe.endDate))

\* the place in the aggregation at which the normalized key was seen first, 0 if never
FirstSeen(records, key) ==
  LET at == {i \in 1..Len(records) :
               /\ toLowerCase(records[i].blockers) # "none"
               /\ substring(toLowerCase(records[i].blockers), 0, BlockerKeyLength) = key}
  IN IF at = {} THEN 0 ELSE CHOOSE i \in at : \A j \in at : i <= j

TopBlockersAtMostFive ==
  \A metrics \in MetricsReturned : Len(metrics.topBlockers) <= 5

TopBlockersCountsFall ==
  \A metrics \in MetricsReturned :
    \A i \in 1..Len(metrics.topBlockers) : \A j \in (i + 1)..Len(metrics.topBlockers) :
      metrics.topBlockers[i].count >= metrics.topBlockers[j].count

TopBlockersTiesInFirstSeenOrder ==
  probe.op = "window" =>
    LET top == probe.result.topBlockers
        records == RecordsAggregated(probe.reads)
    IN \A i \in 1..Len(top) : \A j \in (i + 1)..Len(top) :
         top[i].count = top[j].count =>
           FirstSeen(records, top[i].blocker) < FirstSeen(records, top[j].blocker)

\* C14: topBlockers has at most 5 entries, their counts never rise from one
\* entry to the next, and of two entries with the same count the one whose
\* normalized key the aggregation saw first comes first.
TopBlockersRankedByCountThenFirstSeen ==
  /\ TopBlockersAtMostFive
  /\ TopBlockersCountsFall
  /\ TopBlockersTiesInFirstSeenOrder

\* C15: with fewer than 6 records the trend analysis returns the sentinel
\* "not enough data" and no direction.
FewRecordsGiveNoTrend ==
  (probe.op = "analyzed" /\ Len(probe.updates) < 6) =>
    /\ probe.result = NoTrend
    /\ DOMAIN probe.result \cap {"taskTrend", "prTrend", "blockerTrend"} = {}

\* the number of the entries of f in the records with timestamps in from..to
LengthsBetween(updates, f, from, to) ==
  SumLengths(SelectSeq(updates, LAMBDA u : u.timestamp >= from /\ u.timestamp <= to), f)

\* the direction the thresholds 1.2 and 0.8 give, in exact arithmetic, to a
\* metric whose 3 oldest records sum to earlier and whose 3 newest to recent
ExactDirection(recent, earlier) ==
  IF 5 * recent > 6 * earlier THEN "increasing"
  ELSE IF 5 * recent < 4 * earlier THEN "decreasing"
  ELSE "stable"

\* C16: with 6 records or more the trend of the tasks and the trend of the
\* reviews compare the average of the 3 newest records with the average of the
\* 3 oldest: increasing exactly when it is more than 1.2 times as large,
\* decreasing exactly when it is less than 0.8 times as large, stable
\* otherwise, also when it is exactly 1.2 or 0.8 times as large.
TrendFollowsThresholds ==
  (probe.op = "analyzed" /\ Len(probe.updates) >= 6) =>
    LET n == Len(probe.updates)
    IN /\ probe.result.taskTrend =
            ExactDirection(LengthsBetween(probe.updates, "jiraTasks", n - 2, n),
                           LengthsBetween(probe.updates, "jiraTasks", 1, 3))
       /\ probe.result.prTrend =
            ExactDirection(LengthsBetween(probe.updates, "bitbucketPRs", n - 2, n),
                           LengthsBetween(probe.updates, "bitbucketPRs", 1, 3))

\* the bucket of score = tasks * 2 + prs * 1.5 - (blockerCount / standups) * 10,
\* in exact arithmetic, for standups > 0
ScoreBucket(tasks, prs, blockerCount, standups) ==
  LET twiceScoreTimesStandups ==
        4 * tasks * standups + 3 * prs * standups - 20 * blockerCount
  IN IF twiceScoreTimesStandups > 12 * standups THEN "High"
     ELSE IF twiceScoreTimesStandups > 6 * standups THEN "Medium"
     ELSE "Low"

\* C17: the productivity label of a history is "No data" when it has no
\* standup; otherwise it is High when the score tasks * 2 + prs * 1.5 -
\* (blockerCount / standups) * 10 of the totals over the history is above 6,
\* Medium when it is above 3, and Low else.
ProductivityIsBucketOfScore ==
  probe.op = "scored" =>
    LET history == probe.history
        blockerCount == Cardinality({i \in 1..Len(history) :
                                       toLowerCase(history[i].blockers) # "none"})
    IN probe.result.productivity =
         IF Len(history) = 0 THEN "No data"
         ELSE ScoreBucket(SumLengths(history, "jiraTasks"),
                          SumLengths(history, "bitbucketPRs"),
                          blockerCount, Len(history))

\* the bucket of rate = submittedCount / min(windowDays, 30) * 100, in exact arithmetic
ConsistencyBucket(submittedCount, windowDays) ==
  LET expected == Min(windowDays, 30)
  IN IF submittedCount * 100 > 80 * expected THEN "Excellent"
     ELSE IF submittedCount * 100 > 60 * expected THEN "Good"
     ELSE IF submittedCount * 100 > 40 * expected THEN "Fair"
     ELSE "Poor"

\* C18: the consistency label of a member summary is Excellent when the rate
\* submittedCount / min(windowDays, 30) * 100 is above 80, Good when it is
\* above 60, Fair when it is above 40 and Poor else; a rate of exactly 80, 60
\* or 40 falls in the lower bucket.
ConsistencyIsBucketOfRate ==
  probe.op = "summarized" =>
    /\ "consistency" \in DOMAIN probe.result
    /\ probe.result.consistency = ConsistencyBucket(Len(probe.updates), probe.days)

\* the insights of the answer hold one of the given type, priority and message
Emits(type, priority, message) ==
  \E i \in 1..Len(probe.result.insights) :
    /\ probe.result.insights[i].type = type
    /\ probe.result.insights[i].priority = priority
    /\ probe.result.insights[i].message = message

\* C19: for all metrics the insights and the recommendations are returned
\* (the handler answers 200, nothing is thrown); for metrics without a standup,
\* those of an empty store and those of a failed aggregation included, the
\* insights hold the low-priority informational "no data" insight and there
\* is at least one recommendation.
InsightEngineIsTotal ==
  probe.op = "advised" =>
    /\ probe.result.statusCode = 200
    /\ probe.metrics.totalStandups = 0 =>
         /\ Emits("info", "low", "No standup data available yet")
         /\ Len(probe.result.recommendations) >= 1

\* the metrics of a failed aggregation were answered with the "no data" insight
FailedMetricsExplained ==
  /\ probe.op = "advised"
  /\ "error" \in DOMAIN probe.metrics
  /\ probe.metrics.totalStandups = 0
  /\ Emits("info", "low", "No standup data available yet")
  /\ Len(probe.result.recommendations) = 1

\* C20: for metrics with a standup the insights hold the high-priority
\* task-load warning exactly when averageTasksPerMember is above 8, the
\* medium-priority review warning exactly when averagePRsPerMember is above 5,
\* and the high-priority recurring-blocker concern, which names the first of
\* the top blockers, exactly when that blocker's count is above 3; for metrics
\* without a standup the only insight is the low-priority informational one.
TeamInsightsFollowRules ==
  probe.op = "advised" =>
    LET metrics == probe.metrics
        insights == probe.result.insights
    IN IF metrics.totalStandups > 0
       THEN /\ Emits("warning", "high",
                     "High average task load - consider workload distribution")
                 <=> metrics.averageTasksPerMember > 800
            /\ Emits("warning", "medium", "Many open PRs per member - prioritize reviews")
                 <=> metrics.averagePRsPerMember > 500
            /\ (\E i \in 1..Len(insights) :
                  /\ insights[i].type = "concern" /\ insights[i].priority = "high"
                  /\ Len(metrics.topBlockers) > 0
                  /\ includes(insights[i].message, metrics.topBlockers[1].blocker))
                 <=> (Len(metrics.topBlockers) > 0 /\ metrics.topBlockers[1].count > 3)
       ELSE /\ Len(insights) = 1
            /\ insights[1].type = "info" /\ insights[1].priority = "low"

\* a team at the threshold of the task rule and above those of the other two
RulesAtTheirThresholds ==
  /\ probe.op = "advised"
  /\ probe.metrics.totalStandups > 0
  /\ probe.metrics.averageTasksPerMember = 800
  /\ probe.metrics.averagePRsPerMember > 500
  /\ Len(probe.metrics.topBlockers) = 3
  /\ probe.metrics.topBlockers[1].count = 4
  /\ Len(probe.result.insights) = 2

(***************************************************************************)
(* The fallback generator on its own: generateFallbackQuestions is applied *)
(* to a standup, a list of linked tasks and a list of reviews.             *)
(***************************************************************************)
MaxFallbackTasks == 7

LongBlockers == "The staging database has been unreachable since the last deployment"

FallbackBlockers ==
  {"", "None", "none", "NONE", "nOnE", "   ", " none ", "Waiting on database access",
   LongBlockers}

FallbackTasks == {TaskList(n) : n \in 0..MaxFallbackTasks}

FallbackPRs ==
  {OpenPRList(n) : n \in 0..4}
    \cup {<<PullRequest(1, "OPEN", 0), PullRequest(2, "MERGED", 0), PullRequest(3, "OPEN", 0)>>,
          <<PullRequest(1, "MERGED", 0), PullRequest(2, "OPEN", 0), PullRequest(3, "OPEN", 0),
            PullRequest(4, "OPEN", 0)>>,
          <<PullRequest(1, "DECLINED", 0), PullRequest(2, "MERGED", 0),
            PullRequest(3, "MERGED", 0)>>}

FallbackInit ==
  /\ store = <<>>
  /\ clock = 0
  /\ reqs = Requests(0)
  /\ \E b \in FallbackBlockers, tasks \in FallbackTasks, prs \in FallbackPRs :
       probe = [op |-> "fallback",
                standupData |-> [NoStandup EXCEPT !.teamMemberName = "alice", !.blockers = b],
                tasks |-> tasks, prs |-> prs, result |-> <<>>]

(* aiService.generateFallbackQuestions is called *)
Fallback ==
  /\ probe.op = "fallback"
  /\ probe' = [probe EXCEPT !.op = "generated",
                            !.result = generateFallbackQuestions(probe.standupData,
                                                                 probe.tasks, probe.prs)]
  /\ UNCHANGED <<store, clock, reqs>>

FallbackNext == Fallback

FallbackSpec == FallbackInit /\ [][FallbackNext]_vars

OpenReviews(prs) == Len(SelectSeq(prs, LAMBDA pr : pr.state = "OPEN"))

\* the questions the rules give, in their order, when the blockers text is
\* probed or not
RuleQuestions(probed, standupData, tasks, prs) ==
  LET reviewed == OpenReviews(prs) > 2
      prioritized == Len(tasks) > 5
  IN IF ~probed /\ ~reviewed /\ ~prioritized
     THEN DefaultQuestions
     ELSE (IF probed THEN BlockerQuestions(standupData) ELSE <<>>)
            \o (IF reviewed THEN <<PRQuestion(prs)>> ELSE <<>>)
            \o (IF prioritized THEN <<TaskQuestion(tasks)>> ELSE <<>>)

NonEmptyNotNone(blockers) == blockers # "" /\ toLowerCase(blockers) # "none"

\* C21 as stated: the fallback questions are, in this order, the two blocker
\* questions iff the blockers text is non-empty and not "none" in any letter
\* case, the review question iff more than 2 reviews are open, the task
\* question iff more than 5 tasks are linked, and the three default questions
\* iff none of the three holds; the output is never empty.
FallbackFollowsRulesOfNonEmptyBlockers ==
  probe.op = "generated" =>
    /\ probe.result = RuleQuestions(NonEmptyNotNone(probe.standupData.blockers),
                                    probe.standupData, probe.tasks, probe.prs)
    /\ Len(probe.result) > 0

\* C21: the same, the blockers text being probed iff it is not "none" in any
\* letter case and has a character that is not whitespace.
FallbackFollowsRules ==
  probe.op = "generated" =>
    /\ probe.result = RuleQuestions(/\ NonEmptyNotNone(probe.standupData.blockers)
                                    /\ trim(probe.standupData.blockers) # "",
                                    probe.standupData, probe.tasks, probe.prs)
    /\ Len(probe.result) > 0

\* all three rules have triggered: four questions, the blocker ones first
AllFallbackRulesTriggered ==
  /\ probe.op = "generated"
  /\ probe.standupData.blockers = LongBlockers
  /\ OpenReviews(probe.prs) = 3 /\ Len(probe.prs) = 4
  /\ Len(probe.tasks) = 6
  /\ Len(probe.result) = 4
  /\ probe.result[3] = PRQuestion(probe.prs)
  /\ probe.result[4] = TaskQuestion(probe.tasks)

\* the value taken from the response text: JSON.parse(content), or else the
\* lines extractQuestionsFromText finds
IsArrayOfStrings(out) ==
  LET parsed == IF out.isJSON THEN out.items ELSE extractQuestionsFromText(out.text)
  IN /\ out.isJSON => out.isArray
     /\ Len(parsed) > 0
     /\ \A i \in 1..Len(parsed) : parsed[i].t = "string"

\* C22: when the value obtained from the adapter response (by JSON.parse, or
\* else by the line scan) is not a non-empty array of strings,
\* generateFollowUpQuestions returns the questions of the fallback generator.
UnusableResponseGivesFallback ==
  probe.op = "asked" /\ probe.out.kind = "text" /\ ~IsArrayOfStrings(probe.out) =>
    /\ ~probe.result.threw
    /\ probe.result.value =
         generateFallbackQuestions(probe.standupData, probe.tasks, probe.prs)

(***************************************************************************)
(* The read paths of the store while it fails: getTeamMetrics,             *)
(* getPreviousUpdates and getStandupHistory are called, and submissions    *)
(* read the history of their member, while a listing or the read of one    *)
(* object may fail.                                                        *)
(***************************************************************************)
MaxReadSubmissions == 3

\* the members whose submissions are read: the first one submits again
ReadMember(r) == IF r = 2 THEN TeamMembers[2] ELSE TeamMembers[1]

ReadBlockers == {"None", "Waiting on database access"}

RECURSIVE ReadEntries(_, _, _)
\* lines 236-259: what getStandupHistory pushes for the objects, in order
ReadEntries(st, objects, failed) ==
  IF Len(objects) = 0 THEN <<>>
  ELSE LET data == getObjectFromS3(st, Head(objects).Key, failed)
       IN (IF data.status # "data" THEN <<>>
           ELSE IF Head(objects).Key.fmt = "json" THEN data.items
           ELSE <<[date |-> Head(objects).Key.name, data |-> data.items[1]]>>)
            \o ReadEntries(st, Tail(objects), failed)

\* lines 224-233: the file name without its extension lies in the range
InDateRange(obj, startDate, endDate) ==
  /\ ~(startDate # "" /\ StringLess(obj.Key.name, startDate))
  /\ ~(endDate # "" /\ StringLess(endDate, obj.Key.name))

getStandupHistory(st, teamMemberName, startDate, endDate, format, listOk, failed) ==
  LET objects == listObjectsFromS3(st, format, teamMemberName, listOk)
      filteredObjects == SelectSeq(objects, LAMBDA obj : InDateRange(obj, startDate, endDate))
  IN ReadEntries(st, filteredObjects, failed)

\* what the store does during one query: every call succeeds, the listing
\* fails, or the read (or the parse) of one object fails
ReadOutcomes(st) ==
  {[listOk |-> TRUE, failed |-> {}], [listOk |-> FALSE, failed |-> {}]}
    \cup {[listOk |-> TRUE, failed |-> {k}] : k \in JsonKeys(st)}

\* no query has been answered since the last submission
Unread == probe.op \in {"none", "submitted"}

HistoryRanges == {<<"", "">>, <<DateString(0), DateString(0)>>, <<DateString(TicksPerDay), "">>}

(* standupHandler.processStandup whose writes all succeed *)
SubmitAfterRead ==
  \E r \in DOMAIN reqs : \E blockers \in ReadBlockers, reads \in ReadOutcomes(store) :
    /\ Unread
    /\ reqs[r].pc = "idle"
    /\ IF r = 1 THEN TRUE ELSE reqs[r - 1].pc = "done"
    /\ LET after == SubmittedAfter(store, clock, r, ValidBody(ReadMember(r), blockers),
                                   TaskList(r), OpenPRList(r - 1), reads)
       IN /\ store' = after.store
          /\ reqs' = [reqs EXCEPT ![r] = after.request]
    /\ probe' = [op |-> "submitted", request |-> r, reads |-> reads]
    /\ UNCHANGED clock

(* storageService.getTeamMetrics *)
MetricsRead ==
  \E w \in {<<"", "">>, <<DateString(TicksPerDay), "">>}, reads \in ReadOutcomes(store) :
    /\ Unread
    /\ probe' = [op |-> "metrics", startDate |-> w[1], endDate |-> w[2], reads |-> reads,
                 result |-> getTeamMetrics(store, w[1], w[2], reads.listOk, reads.failed)]
    /\ UNCHANGED <<store, clock, reqs>>

(* storageService.getPreviousUpdates *)
PreviousRead ==
  \E r \in 1..2, reads \in ReadOutcomes(store) :
    /\ Unread
    /\ probe' = [op |-> "previous", teamMember |-> ReadMember(r), reads |-> reads,
                 result |-> getPreviousUpdates(store, ReadMember(r), DefaultLimit,
                                               reads.listOk, reads.failed)]
    /\ UNCHANGED <<store, clock, reqs>>

(* storageService.getStandupHistory *)
HistoryRead ==
  \E r \in 1..2, w \in HistoryRanges, format \in {"json", "csv"}, reads \in ReadOutcomes(store) :
    /\ Unread
    /\ probe' = [op |-> "history", teamMember |-> ReadMember(r),
                 startDate |-> w[1], endDate |-> w[2], format |-> format, reads |-> reads,
                 result |-> getStandupHistory(store, ReadMember(r), w[1], w[2], format,
                                              reads.listOk, reads.failed)]
    /\ UNCHANGED <<store, clock, reqs>>

ReadInit == InitWith(MaxReadSubmissions)

(* time passes between two submissions *)
ReadTick == Unread /\ Tick

ReadNext == SubmitAfterRead \/ ReadTick \/ MetricsRead \/ PreviousRead \/ HistoryRead

ReadSpec == ReadInit /\ [][ReadNext]_vars

\* the store as a query sees it when the listing fails or the read of an object
\* fails: without the objects it cannot read
Readable(st, reads) ==
  IF reads.listOk THEN [k \in DOMAIN st \ reads.failed |-> st[k]] ELSE <<>>

SameMetrics(m1, m2) ==
  \A f \in DOMAIN EmptyMetrics : m1[f] = m2[f]

FailedSubmissionLeavesNoCopy ==
  \A r \in DOMAIN reqs :
    Answered(reqs[r], 500) /\ WriteFailed(reqs[r]) =>
      /\ ~InDayFile(reqs[r])
      /\ IdFile(reqs[r]) \notin DOMAIN store
      /\ ~InCsvFile(reqs[r])

One(triggered) == IF triggered THEN 1 ELSE 0

\* the insight rules that trigger on the metrics; the two participation rules
\* exclude each other
TriggeredInsightRules(metrics) ==
  IF metrics.totalStandups = 0 THEN 1
  ELSE One(metrics.activeMembers > 0 /\ metrics.totalStandups < 5 * metrics.activeMembers)
         + One(metrics.activeMembers > 0 /\ metrics.totalStandups > 20 * metrics.activeMembers)
         + One(metrics.averageTasksPerMember > 800)
         + One(metrics.averagePRsPerMember > 500)
         + One(Len(metrics.topBlockers) > 0 /\ metrics.topBlockers[1].count > 3)

\* the recommendation rules that trigger on the metrics; the last one is the
\* rule of the metrics on which no other rule triggers
TriggeredRecommendationRules(metrics) ==
  IF metrics.totalStandups = 0 THEN 1
  ELSE LET rules == One(metrics.activeMembers < 5)
                      + One(metrics.averageTasksPerMember > 600)
                      + One(metrics.averagePRsPerMember > 300)
                      + One(Len(metrics.topBlockers) > 2)
       IN IF rules = 0 THEN 1 ELSE rules

\* C25: every rule that triggers appends exactly one entry: there are as many
\* insights as triggered insight rules and as many recommendations as triggered
\* recommendation rules.
OneEntryPerTriggeredRule ==
  probe.op = "advised" =>
    /\ Len(probe.result.insights) = TriggeredInsightRules(probe.metrics)
    /\ Len(probe.result.recommendations) = TriggeredRecommendationRules(probe.metrics)

(***************************************************************************)
(* dataHandler.js: the recurring blockers of a member                      *)
(***************************************************************************)
SimilarPrefixLength == 20

RecurringTextLength == 100

MaxRecurringBlockers == 3

\* lines 612-630; blockers are the entries analyzeIndividualBlockers builds
findRecurringBlockers(blockers) ==
  LET blockerTexts == [i \in 1..Len(blockers) |-> toLowerCase(blockers[i].blocker)]
      similarBlockers(index) ==
        {otherIndex \in 1..Len(blockers) :
           /\ otherIndex # index
           /\ includes(blockerTexts[otherIndex],
                       substring(blockerTexts[index], 0, SimilarPrefixLength))}
      found == SelectSeq([i \in 1..Len(blockers) |-> i],
                         LAMBDA index : Cardinality(similarBlockers(index)) > 0)
      recurring == [k \in 1..Len(found) |->
                      [blocker |-> substring(blockerTexts[found[k]], 0, RecurringTextLength),
                       occurrences |-> Cardinality(similarBlockers(found[k])) + 1]]
  IN slice(recurring, MaxRecurringBlockers)

MaxBlockerEntries == 5

RecurringTexts == {"Waiting on database access", "VPN is down", "VPN is down since Monday"}

\* lines 577-583: the entry of a record whose blockers text is not 'none'
BlockerEntry(t, blockers) == [date |-> t, blocker |-> blockers, followUpQuestions |-> <<>>]

RecurringInit ==
  /\ store = <<>>
  /\ clock = 0
  /\ reqs = Requests(0)
  /\ \E n \in 0..MaxBlockerEntries : \E texts \in [1..n -> RecurringTexts] :
       probe = [op |-> "recur",
                blockers |-> [i \in 1..n |-> BlockerEntry(n - i, texts[i])],
                result |-> <<>>]

(* dataHandler.findRecurringBlockers is called *)
Recur ==
  /\ probe.op = "recur"
  /\ probe' = [probe EXCEPT !.op = "recurred",
                            !.result = findRecurringBlockers(probe.blockers)]
  /\ UNCHANGED <<store, clock, reqs>>

RecurringNext == Recur

RecurringSpec == RecurringInit /\ [][RecurringNext]_vars

\* how many of the entries hold the first 20 characters of entry i, itself included
OccurrencesOf(blockers, i) ==
  Cardinality({j \in 1..Len(blockers) :
                 \/ j = i
                 \/ includes(toLowerCase(blockers[j].blocker),
                             substring(toLowerCase(blockers[i].blocker), 0, 20))})

\* the recurring blockers: the texts that occur more than once, with their counts
RecurringBlockersOf(blockers) ==
  {[blocker |-> toLowerCase(blockers[i].blocker),
    occurrences |-> OccurrencesOf(blockers, i)] :
     i \in {j \in 1..Len(blockers) : OccurrencesOf(blockers, j) > 1}}

\* C26: findRecurringBlockers returns at most 3 entries, all of them recurring
\* blockers, and no recurring blocker that is not returned occurs more often
\* than one that is returned.
TopRecurringBlockersReturned ==
  probe.op = "recurred" =>
    LET returned == {probe.result[k] : k \in 1..Len(probe.result)}
        recurring == RecurringBlockersOf(probe.blockers)
    IN /\ Len(probe.result) <= 3
       /\ returned \subseteq recurring
       /\ \A out \in recurring \ returned : \A r \in returned :
            ~(out.occurrences > r.occurrences)

(***************************************************************************)
(* One member submits several times, every call of the store succeeding:   *)
(* what the handler takes from the history getPreviousUpdates returns.     *)
(***************************************************************************)
MaxMemberSubmissions == 3

RecallBlockers == {"None", "none", "VPN is down", "Waiting on database access"}

\* aiService.js lines 131-137: the history block of the context of the model
RecentHistory(previousUpdates) ==
  IF Len(previousUpdates) > 0
  THEN LET recentUpdate == previousUpdates[Len(previousUpdates)]
       IN "RECENT HISTORY:\n"
            \o "Last standup blockers: "
            \o (IF recentUpdate.blockers # "" THEN recentUpdate.blockers ELSE "None") \o "\n"
            \o "Previous updates count: " \o NumberToString(Len(previousUpdates)) \o "\n\n"
  ELSE ""

(* standupHandler.processStandup for the member, its writes succeeding *)
MemberSubmit ==
  \E r \in DOMAIN reqs : \E blockers \in RecallBlockers :
    /\ reqs[r].pc = "idle"
    /\ IF r = 1 THEN TRUE ELSE reqs[r - 1].pc = "done"
    /\ LET after == Submitted(store, clock, r, ValidBody(TeamMembers[1], blockers),
                              TaskList(1), OpenPRList(1))
       IN /\ store' = after.store
          /\ reqs' = [reqs EXCEPT ![r] = after.request]
          /\ probe' = [op |-> "submitted", request |-> r,
                       context |-> RecentHistory(after.request.previousUpdates)]
    /\ UNCHANGED clock

RecallInit == InitWith(MaxMemberSubmissions)

RecallNext == MemberSubmit \/ Tick

RecallSpec == RecallInit /\ [][RecallNext]_vars

\* one of the two texts holds the first 20 characters of the other, in lower case
SimilarBlockers(a, b) ==
  \/ includes(toLowerCase(a), substring(toLowerCase(b), 0, 20))
  \/ includes(toLowerCase(b), substring(toLowerCase(a), 0, 20))

HasRecurringBlockerInsight(q) ==
  \E i \in 1..Len(q.response.insights) : q.response.insights[i].type = "recurring_blocker"

\* C27: when the member has prior history, the blockers text put into the
\* context of the model, and compared with the current blockers for the
\* recurring-blocker insight, is that of a record with the greatest timestamp
\* among the records getPreviousUpdates returned.
MostRecentRecordIsRecalled ==
  probe.op = "submitted" /\ Len(reqs[probe.request].previousUpdates) > 0 =>
    LET q == reqs[probe.request]
        prior == {q.previousUpdates[i] : i \in 1..Len(q.previousUpdates)}
    IN \E latest \in prior :
         /\ \A u \in prior : u.timestamp <= latest.timestamp
         /\ includes(probe.context, "Last standup blockers: " \o latest.blockers \o "\n")
         /\ HasRecurringBlockerInsight(q)
              <=> SimilarBlockers(q.standupData.blockers, latest.blockers)

\* C29: a submission whose blockers text is "None" in any letter case gets no
\* recurring_blocker insight, whatever the history of the member holds.
NoBlockersNeverRecurring ==
  \A r \in DOMAIN reqs :
    reqs[r].pc = "done" /\ toLowerCase(reqs[r].standupData.blockers) = "none" =>
      ~HasRecurringBlockerInsight(reqs[r])

\* the submissions that have been answered with a success
Submissions == {r \in DOMAIN reqs : Answered(reqs[r], 200)}

SubmissionsOf(member) == {r \in Submissions : reqs[r].standupData.teamMemberName = member}

RECURSIVE SumOfSet(_, _)
\* the sum of f over the requests of S
SumOfSet(f, S) ==
  IF S = {} THEN 0
  ELSE LET r == CHOOSE x \in S : TRUE IN f[r] + SumOfSet(f, S \ {r})

\* C28: after any sequence of successful submissions, getTeamMetrics without a
\* window, every read succeeding, counts each record once: totalStandups is the
\* number of submissions, and the standupCount, the task and review totals and
\* the blockers of a member are those of its submissions.
EveryRecordCountedOnce ==
  probe.op = "window" /\ probe.startDate = "" /\ probe.endDate = "" /\ Faultless(probe.reads) =>
    /\ probe.result.totalStandups = Cardinality(Submissions)
    /\ \A member \in {reqs[r].standupData.teamMemberName : r \in Submissions} :
         LET stats == probe.result.memberStats[member]
             mine == SubmissionsOf(member)
         IN /\ stats.standupCount = Cardinality(mine)
            /\ stats.totalTasks = SumOfSet([r \in DOMAIN reqs |-> Len(reqs[r].tasks)], mine)
            /\ stats.totalPRs = SumOfSet([r \in DOMAIN reqs |-> Len(reqs[r].prs)], mine)
            /\ Len(stats.blockers) =
                 Cardinality({r \in mine : toLowerCase(reqs[r].standupData.blockers) # "none"})

(***************************************************************************)
(* The two productivity labels of one history: the productivity endpoint   *)
(* and the member summary are asked about the same records.                *)
(***************************************************************************)
(* dataHandler.getTeamMemberSummary, lines 141-145: the summary of the     *)
(* records whose productivity has been scored                              *)
SummarizeScored ==
  /\ probe.op = "scored"
  /\ probe' = [op |-> "compared", history |-> probe.history, result |-> probe.result,
               summary |-> MemberSummary(probe.history, DefaultSummaryDays)]
  /\ UNCHANGED <<store, clock, reqs>>

AgreementNext == Score \/ SummarizeScored

AgreementSpec == ProductivityInit /\ [][AgreementNext]_vars

\* C30: for every history that is not empty, the productivity label of the
\* member summary is the label of the productivity endpoint.
ProductivityLabelsAgree ==
  probe.op = "compared" /\ Len(probe.history) > 0 =>
    probe.summary.productivity = probe.result.productivity

============================================================================
